---- MODULE Spec2Model ----
(***************************************************************************)
(* Verification model of the ENSnano 3D scene interaction core.            *)
(*                                                                         *)
(* Part 1: the scene input controller (src/src/scene/controller.rs).       *)
(* The controller is a state machine driven by window events (`input`)    *)
(* and by `notify`; each call of `input` returns a Consequence.            *)
(***************************************************************************)
EXTENDS Integers, Sequences, FiniteSets, TLC

(***************************************************************************)
(* Bounds of the model.                                                    *)
(***************************************************************************)
\* largest pixel coordinate a cursor position takes
MaxCoord == 5
\* number of distinct strand builders the design layer can offer
NumBuilders == 1
\* largest number of designs the data layer holds
MaxDesigns == 1
\* number of nucleotides of a design
NumNucl == 2
\* largest length of a selection given to the expansion functions
MaxSelected == 2
\* number of nucleotides of the one-strand design
StrandLen == 10
MaxBytes == 3
MaxSceneDesigns == 2

(***************************************************************************)
(* Program constants.                                                      *)
(***************************************************************************)
\* the literal `5.` of left_click_camera: a release nearer than this is a click
ClickThreshold == 5
\* f64::NAN, the coordinate of NO_POS; it is no pixel coordinate (these are
\* >= 0 in the model) and every comparison with it is false (see float_lt)
NAN == -1

(***************************************************************************)
(* Option<T>: None is the empty sequence, Some(v) the one-element one.     *)
(***************************************************************************)
None == <<>>
Some(v) == <<v>>
is_some(o) == o # <<>>
unwrap(o) == o[1]
unwrap_or(o, d) == IF o # <<>> THEN o[1] ELSE d

(***************************************************************************)
(* Input domains.                                                          *)
(***************************************************************************)
\* cursor positions (PhysicalPosition<f64>): the origin, a position just
\* under the click threshold away from it on the x axis, and positions at
\* the threshold and beyond on the y axis
Positions == {<<0, 0>>, <<ClickThreshold - 1, 0>>}
                \cup {<<0, c>> : c \in ClickThreshold..MaxCoord}
ElementStates == {"Pressed", "Released"}
\* ModifiersState, as the set of modifier keys held
ModifiersStates == {{}, {"SHIFT"}}
\* VirtualKeyCode: the three accelerator letters and a navigation key
VirtualKeyCodes == {"T", "H", "L", "W"}
\* MouseScrollDelta
ScrollDeltas == {-1, 1}
\* StrandBuilder objects the design layer can hand out
Builders == 1..NumBuilders
\* (window size, draw-area size) pairs, as <<width, height>>
Layouts == {<<<<8, 6>>, <<6, 6>>>>, <<<<12, 8>>, <<8, 6>>>>}
HandleDirs == {"Right", "Up", "Dir"}
RotationModes == {"Right", "Up", "Front"}
SelectionModes == {"Nucleotide", "Design", "Strand", "Helix"}
ActionModes == {"Normal", "Translate", "Rotate", "Build"}
\* widget identifiers of crate::consts, kept symbolic, and one that is not
\* a handle, a circle or the sphere
WidgetIds == {"RIGHT_HANDLE_ID", "UP_HANDLE_ID", "DIR_HANDLE_ID",
              "RIGHT_CIRCLE_ID", "UP_CIRCLE_ID", "FRONT_CIRCLE_ID",
              "SPHERE_WIDGET_ID", "OTHER_WIDGET_ID"}
\* Option<SceneElement>: a widget element, a non-widget element, or None
SceneElements == {<<"WidgetElement", w>> : w \in WidgetIds}
                   \cup {<<"DesignElement", "elt">>}
OptSceneElements == {None} \cup {Some(e) : e \in SceneElements}

VARIABLES
    state,                          \* Controller::state
    last_left_clicked_position,     \* Option<PhysicalPosition>
    last_right_clicked_position,    \* Option<PhysicalPosition>
    mouse_position,                 \* PhysicalPosition
    window_size,                    \* PhySize <<width, height>>
    area_size,                      \* PhySize <<width, height>>
    current_modifiers,              \* ModifiersState
    modifiers_when_clicked,         \* ModifiersState
    selection_mode,                 \* Data::selection_mode of the data layer
    designs,                        \* Data::designs, a Vec<Design3D>
    selected,                       \* Data::selected, a Vec<(u32, u32)>
    candidates,                     \* Data::candidates, a Vec<(u32, u32)>
    action_mode,                    \* Data::action_mode
    selected_position,              \* Data::selected_position, an Option<Vec3>
    selection_update,               \* Data::selection_update
    candidate_update,               \* Data::candidate_update
    instance_update,                \* Data::instance_update
    matrices_update,                \* Data::matrices_update
    widget_basis,                   \* Data::widget_basis, an Option<WidgetBasis>
    panicked,                       \* whether a call on the data layer panicked
    event,                          \* the call handled last
    consequence,                    \* the Consequence it returned
    calls,                          \* the calls it made to its collaborators
    tick,                           \* parity of the number of calls handled
    scene,                          \* the fields of the orchestrating Scene
    window_state,                   \* Controller::state of the window controller
    dynamic_buffer,                 \* the fields of a DynamicBuffer
    pending,                        \* whether the last left press began a movement
                                    \* and no left release was handled since
    camera_left,                    \* the left button as process_click was told:
                                    \* "never" pressed, "pressed" or "released"
                                    \* (followed in SpecClicks only)
    pushed                          \* the selected and candidate instances that
                                    \* update_view gave the view last
                                    \* (followed in SpecPushed only)

ctrl_vars == <<state, last_left_clicked_position, last_right_clicked_position,
               mouse_position, window_size, area_size, current_modifiers,
               modifiers_when_clicked>>
out_vars == <<event, consequence, calls, tick>>
data_vars == <<designs, selected, candidates, action_mode, selected_position,
               selection_update, candidate_update, instance_update,
               matrices_update, widget_basis, panicked>>
rest_vars == <<scene, window_state, dynamic_buffer, pending, camera_left, pushed>>
vars == <<ctrl_vars, selection_mode, data_vars, out_vars, rest_vars>>

(***************************************************************************)
(* enum State and enum Consequence: a variant is the tuple of its name and  *)
(* its fields.                                                             *)
(***************************************************************************)
MoveCamera == <<"MoveCamera">>
Translate(dir) == <<"Translate", dir>>
Rotate(mode) == <<"Rotate", mode>>
TogglingWidget == <<"TogglingWidget">>
Building(builder) == <<"Building", builder>>

Nothing == <<"Nothing">>
CameraMoved == <<"CameraMoved">>
MovementEnded == <<"MovementEnded">>
ToggleWidget == <<"ToggleWidget">>
PixelSelected(p) == <<"PixelSelected", p>>
CursorMovedTo(p) == <<"CursorMoved", p>>
Translation(dir, x, y) == <<"Translation", dir, x, y>>
Rotation(mode, x, y) == <<"Rotation", mode, x, y>>
InitTranslation(x, y) == <<"InitTranslation", x, y>>
InitRotation(x, y) == <<"InitRotation", x, y>>
Swing(x, y) == <<"Swing", x, y>>

\* a call handled: its kind, then the button or the key and its ElementState,
\* the position of a cursor move, or the element given to notify
Ev(kind, a, b) == <<kind, a, b>>

(***************************************************************************)
(* f64 arithmetic on the small integers of the model.  A quotient n / d    *)
(* is kept as the fraction <<n, d>>.                                       *)
(***************************************************************************)
Abs(x) == IF x < 0 THEN -x ELSE x
Div(n, d) == <<n, d>>
\* `x < y` on f64: false when x is NaN
float_lt(x, y) == x # NAN /\ x < y

NO_POS == <<NAN, NAN>>

position_difference_min(a, b) ==
    IF a = NO_POS \/ b = NO_POS THEN NAN
    ELSE LET dx == Abs(a[1] - b[1])
             dy == Abs(a[2] - b[2])
         IN IF dx < dy THEN dx ELSE dy

\* (a.x - b.x).abs().max((a.y - b.y).abs()); NaN when a position is NO_POS
position_difference(a, b) ==
    IF a = NO_POS \/ b = NO_POS THEN NAN
    ELSE LET dx == Abs(a[1] - b[1])
             dy == Abs(a[2] - b[2])
         IN IF dx > dy THEN dx ELSE dy

logical_mouse_position ==
    <<Div(mouse_position[1], area_size[1]), Div(mouse_position[2], area_size[2])>>

(***************************************************************************)
(* Every call handled advances the parity and records which call it was;   *)
(* Return records what the call returned and the calls it made to the      *)
(* camera sub-controller, the view and the data layer, in order.           *)
(***************************************************************************)
Record(ev) ==
    /\ event' = ev
    /\ tick' = 1 - tick

Return(cons, cs) ==
    /\ consequence' = cons
    /\ calls' = cs

\* the value of a call that returns ()
Unit == <<"()">>

\* whether the call handled last called `fn` on a collaborator
Called(fn) == \E i \in DOMAIN calls : calls[i][1] = fn

TypeOK ==
    /\ state \in {MoveCamera, TogglingWidget}
                    \cup {Translate(d) : d \in HandleDirs}
                    \cup {Rotate(m) : m \in RotationModes}
                    \cup {Building(b) : b \in Builders}
    /\ last_left_clicked_position \in {None} \cup {Some(p) : p \in Positions}
    /\ last_right_clicked_position \in {None} \cup {Some(p) : p \in Positions}
    /\ mouse_position \in Positions
    /\ <<window_size, area_size>> \in Layouts
    /\ current_modifiers \in ModifiersStates
    /\ modifiers_when_clicked \in ModifiersStates
    /\ selection_mode \in SelectionModes
    /\ action_mode \in ActionModes
    /\ selection_update \in BOOLEAN /\ candidate_update \in BOOLEAN
    /\ instance_update \in BOOLEAN /\ matrices_update \in BOOLEAN
    /\ panicked \in BOOLEAN
    /\ widget_basis \in {None, Some("World"), Some("Object")}
    /\ tick \in {0, 1}
    /\ pending \in BOOLEAN
    /\ camera_left \in {"never", "pressed", "released"}

\* SceneUpdate::new: no pending update, both flags down
SceneUpdate_new ==
    [tube_instances |-> None, sphere_instances |-> None,
     fake_tube_instances |-> None, fake_sphere_instances |-> None,
     selected_tube |-> None, selected_sphere |-> None,
     model_matrices |-> None, need_update |-> FALSE, camera_update |-> FALSE]

\* Scene::new: no design, nothing selected, the draw area given by the caller
Scene_new(area) ==
    [designs |-> <<>>, update |-> SceneUpdate_new, selected_id |-> None,
     selected_design |-> None, area |-> area, panicked |-> FALSE]

\* the window controller's states; a dialog state carries its pending dialog
\* and the states it moves to
NormalState == <<"NormalState">>
OhNo == <<"OhNo">>
\* TransitionMessage::new and YesNo::new: no dialog opened yet
TransitionMessage_new(level, transistion_to) ==
    <<"TransitionMessage", level, None, transistion_to>>
YesNo_new(yes, no) == <<"YesNo", None, yes, no>>

\* DynamicBuffer::new: an empty GPU buffer
DynamicBuffer_new == [buffer |-> <<>>, capacity |-> 0, length |-> 0]

\* Scene::new, Controller::new of the window controller and DynamicBuffer::new
InitRest ==
    /\ scene = Scene_new(<<<<0, 0>>, area_size>>)
    /\ window_state = NormalState
    /\ dynamic_buffer = DynamicBuffer_new
    /\ pending = FALSE
    /\ camera_left = "never"
    /\ pushed = [SelectedTubes |-> {}, SelectedSpheres |-> {},
                 CandidateTubes |-> {}, CandidateSpheres |-> {}]

\* Controller::new and Data::new; the window and area sizes are the
\* constructor's arguments
Init ==
    /\ state = MoveCamera
    /\ last_left_clicked_position = None
    /\ last_right_clicked_position = None
    /\ mouse_position = <<0, 0>>
    /\ \E l \in Layouts : window_size = l[1] /\ area_size = l[2]
    /\ current_modifiers = {}
    /\ modifiers_when_clicked = {}
    /\ selection_mode = "Nucleotide"
    /\ designs = <<>>
    /\ selected = <<>>
    /\ candidates = <<>>
    /\ action_mode = "Normal"
    /\ selected_position = None
    /\ selection_update = FALSE
    /\ candidate_update = FALSE
    /\ instance_update = FALSE
    /\ matrices_update = FALSE
    /\ widget_basis = None
    /\ panicked = FALSE
    /\ event = Ev("new", "none", "none")
    /\ consequence = Nothing
    /\ calls = <<>>
    /\ tick = 0
    /\ InitRest

\* WindowEvent::ModifiersChanged
ModifiersChanged(modifiers) ==
    /\ current_modifiers' = modifiers
    /\ Record(Ev("ModifiersChanged", "none", "none"))
    /\ Return(Nothing, <<>>)
    /\ UNCHANGED <<state, last_left_clicked_position, last_right_clicked_position,
                   mouse_position, window_size, area_size, modifiers_when_clicked,
                   selection_mode, data_vars, rest_vars>>

\* a cycle of three granularities that never reaches Helix
toggle_selection_mode_three(mode) ==
    CASE mode = "Nucleotide" -> "Design"
      [] mode = "Design" -> "Strand"
      [] mode = "Strand" -> "Nucleotide"
      [] mode = "Helix" -> "Nucleotide"

\* Data::toggle_selection_mode
toggle_selection_mode(mode) ==
    CASE mode = "Nucleotide" -> "Design"
      [] mode = "Design" -> "Strand"
      [] mode = "Strand" -> "Helix"
      [] mode = "Helix" -> "Nucleotide"

\* the H arm without its Shift guard
Accelerator_no_shift(key, st, modifiers) ==
    CASE key = "T" /\ st = "Released" -> "toggle_selection_mode"
      [] key = "H" -> "select_5prime"
      [] key = "L" /\ "SHIFT" \in modifiers -> "select_3prime"
      [] OTHER -> "none"

\* the guarded arms of `match *key`: the data-layer call a key event is
\* turned into, "none" for the `_` arm
Accelerator(key, st, modifiers) ==
    CASE key = "T" /\ st = "Released" -> "toggle_selection_mode"
      [] key = "H" /\ "SHIFT" \in modifiers -> "select_5prime"
      [] key = "L" /\ "SHIFT" \in modifiers -> "select_3prime"
      [] OTHER -> "none"

\* WindowEvent::KeyboardInput with a key code; `moved` is what
\* CameraController::process_keyboard returns when it is called
KeyboardInput(key, st, moved) ==
    LET acc == Accelerator(key, st, current_modifiers) IN
    /\ Record(Ev("KeyboardInput", key, st))
    /\ IF acc # "none"
       THEN /\ Return(Nothing, <<<<acc>>>>)
            /\ selection_mode' = IF acc = "toggle_selection_mode"
                                 THEN toggle_selection_mode(selection_mode)
                                 ELSE selection_mode
       ELSE /\ Return(IF moved THEN CameraMoved ELSE Nothing,
                      <<<<"process_keyboard", key, st, moved>>>>)
            /\ UNCHANGED selection_mode
    /\ UNCHANGED <<ctrl_vars, data_vars, rest_vars>>

\* WindowEvent::MouseWheel
MouseWheel(delta) ==
    /\ Record(Ev("MouseWheel", "none", "none"))
    /\ Return(CameraMoved, <<<<"process_scroll", delta>>>>)
    /\ UNCHANGED <<ctrl_vars, selection_mode, data_vars, rest_vars>>

\* CursorLeft ending the left and the right drag in the same event
CursorLeft_both ==
    /\ Record(Ev("CursorLeft", "none", "none"))
    /\ IF is_some(last_left_clicked_position) \/ is_some(last_right_clicked_position)
       THEN /\ last_left_clicked_position' = None
            /\ last_right_clicked_position' = None
            /\ Return(MovementEnded, <<>>)
       ELSE /\ Return(Nothing, <<>>)
            /\ UNCHANGED <<last_left_clicked_position, last_right_clicked_position>>
    /\ UNCHANGED <<state, mouse_position, window_size, area_size, current_modifiers,
                   modifiers_when_clicked, selection_mode, data_vars, rest_vars>>

\* WindowEvent::CursorLeft
CursorLeft ==
    /\ Record(Ev("CursorLeft", "none", "none"))
    /\ IF is_some(last_left_clicked_position)
       THEN /\ last_left_clicked_position' = None
            /\ Return(MovementEnded, <<>>)
            /\ UNCHANGED last_right_clicked_position
       ELSE IF is_some(last_right_clicked_position)
       THEN /\ last_right_clicked_position' = None
            /\ Return(MovementEnded, <<>>)
            /\ UNCHANGED last_left_clicked_position
       ELSE /\ Return(Nothing, <<>>)
            /\ UNCHANGED <<last_left_clicked_position, last_right_clicked_position>>
    /\ UNCHANGED <<state, mouse_position, window_size, area_size, current_modifiers,
                   modifiers_when_clicked, selection_mode, data_vars, rest_vars>>

\* left_click_camera whose release reports MovementEnded whether or not a
\* click origin is recorded
left_click_camera_always_ended(st, made) ==
    LET cs == Append(made, <<"process_click", st>>) IN
    IF st = "Pressed"
    THEN /\ last_left_clicked_position' = Some(mouse_position)
         /\ modifiers_when_clicked' = current_modifiers
         /\ Return(MovementEnded, cs)
    ELSE IF float_lt(position_difference(
                         unwrap_or(last_left_clicked_position, NO_POS),
                         mouse_position),
                     ClickThreshold)
    THEN /\ Return(PixelSelected(unwrap(last_left_clicked_position)), cs)
         /\ last_left_clicked_position' = None
         /\ UNCHANGED modifiers_when_clicked
    ELSE /\ Return(MovementEnded, cs)
         /\ last_left_clicked_position' = None
         /\ UNCHANGED modifiers_when_clicked

\* Controller::left_click_camera; `made` are the calls the caller has made
\* before it
left_click_camera(st, made) ==
    LET cs == Append(made, <<"process_click", st>>) IN
    IF st = "Pressed"
    THEN /\ last_left_clicked_position' = Some(mouse_position)
         /\ modifiers_when_clicked' = current_modifiers
         /\ Return(MovementEnded, cs)
    ELSE IF float_lt(position_difference(
                         unwrap_or(last_left_clicked_position, NO_POS),
                         mouse_position),
                     ClickThreshold)
    THEN /\ Return(PixelSelected(unwrap(last_left_clicked_position)), cs)
         /\ last_left_clicked_position' = None
         /\ UNCHANGED modifiers_when_clicked
    ELSE /\ Return(IF is_some(last_left_clicked_position)
                   THEN MovementEnded ELSE Nothing, cs)
         /\ last_left_clicked_position' = None
         /\ UNCHANGED modifiers_when_clicked

\* the MoveCamera arm entering Building without recording the click origin
left_in_MoveCamera_no_origin(st, builder, made) ==
    IF is_some(builder)
    THEN /\ state' = Building(unwrap(builder))
         /\ Return(Nothing, made)
         /\ UNCHANGED <<last_left_clicked_position, modifiers_when_clicked>>
    ELSE /\ left_click_camera(st, made)
         /\ UNCHANGED state

\* the arm State::MoveCamera of the left button match
left_in_MoveCamera(st, builder, made) ==
    IF is_some(builder)
    THEN /\ state' = Building(unwrap(builder))
         /\ last_left_clicked_position' = Some(mouse_position)
         /\ Return(Nothing, made)
         /\ UNCHANGED modifiers_when_clicked
    ELSE /\ left_click_camera(st, made)
         /\ UNCHANGED state

\* the arm State::Rotate(_)
left_in_Rotate(st, made) ==
    /\ IF st = "Pressed"
       THEN /\ last_left_clicked_position' = Some(mouse_position)
            /\ Return(InitRotation(logical_mouse_position[1],
                                   logical_mouse_position[2]), made)
       ELSE /\ last_left_clicked_position' = None
            /\ Return(MovementEnded, made)
    /\ UNCHANGED <<state, modifiers_when_clicked>>

\* the Translate arm with a release that keeps the click origin
left_in_Translate_keep(st, made) ==
    /\ IF st = "Pressed"
       THEN /\ last_left_clicked_position' = Some(mouse_position)
            /\ Return(InitTranslation(logical_mouse_position[1],
                                      logical_mouse_position[2]), made)
       ELSE /\ Return(MovementEnded, made)
            /\ UNCHANGED last_left_clicked_position
    /\ UNCHANGED <<state, modifiers_when_clicked>>

\* the arm State::Translate(_)
left_in_Translate(st, made) ==
    /\ IF st = "Pressed"
       THEN /\ last_left_clicked_position' = Some(mouse_position)
            /\ Return(InitTranslation(logical_mouse_position[1],
                                      logical_mouse_position[2]), made)
       ELSE /\ last_left_clicked_position' = None
            /\ Return(MovementEnded, made)
    /\ UNCHANGED <<state, modifiers_when_clicked>>

\* the TogglingWidget arm with a release that goes back to MoveCamera
left_in_TogglingWidget_leave(st, made) ==
    /\ IF st = "Pressed"
       THEN /\ Return(ToggleWidget, made)
            /\ UNCHANGED <<state, last_left_clicked_position>>
       ELSE /\ last_left_clicked_position' = None
            /\ state' = MoveCamera
            /\ Return(MovementEnded, made)
    /\ UNCHANGED modifiers_when_clicked

\* the arm State::TogglingWidget
left_in_TogglingWidget(st, made) ==
    /\ IF st = "Pressed"
       THEN /\ Return(ToggleWidget, made)
            /\ UNCHANGED last_left_clicked_position
       ELSE /\ last_left_clicked_position' = None
            /\ Return(MovementEnded, made)
    /\ UNCHANGED <<state, modifiers_when_clicked>>

\* the Building arm without the return to MoveCamera on release
left_in_Building_stay(st, made) ==
    /\ UNCHANGED state
    /\ left_click_camera(st, Append(made, <<"println", "not building">>))

\* the arm State::Building(_), which prints "not building" first
left_in_Building(st, made) ==
    /\ state' = IF st = "Released" THEN MoveCamera ELSE state
    /\ left_click_camera(st, Append(made, <<"println", "not building">>))

\* WindowEvent::MouseInput, button Left; `offer` is what
\* Data::get_strand_builder returns when it is asked
MouseInputLeft(st, offer) ==
    LET builder == IF st = "Pressed" THEN offer ELSE None
        made == IF st = "Pressed" THEN <<<<"get_strand_builder", offer>>>> ELSE <<>>
    IN
    /\ Record(Ev("MouseInput", "Left", st))
    /\ CASE state[1] = "MoveCamera" -> left_in_MoveCamera(st, builder, made)
         [] state[1] = "Rotate" -> left_in_Rotate(st, made)
         [] state[1] = "Translate" -> left_in_Translate(st, made)
         [] state[1] = "TogglingWidget" -> left_in_TogglingWidget(st, made)
         [] state[1] = "Building" -> left_in_Building(st, made)
    /\ UNCHANGED <<last_right_clicked_position, mouse_position, window_size,
                   area_size, current_modifiers, selection_mode, data_vars,
                   scene, window_state, dynamic_buffer, pushed>>
    /\ pending' = (st = "Pressed" /\ consequence'[1] \in {"InitTranslation", "InitRotation"})

\* the right button arm whose release leaves the state as it is
MouseInputRight_keep_state(st) ==
    /\ Record(Ev("MouseInput", "Right", st))
    /\ IF st = "Pressed"
       THEN /\ last_right_clicked_position' = Some(mouse_position)
            /\ modifiers_when_clicked' = current_modifiers
            /\ Return(MovementEnded, <<<<"process_click", st>>, <<"foccus">>>>)
            /\ UNCHANGED state
       ELSE /\ last_right_clicked_position' = None
            /\ Return(IF is_some(last_right_clicked_position)
                      THEN MovementEnded ELSE Nothing,
                      <<<<"process_click", st>>>>)
            /\ UNCHANGED <<state, modifiers_when_clicked>>
    /\ UNCHANGED <<last_left_clicked_position, mouse_position, window_size,
                   area_size, current_modifiers, selection_mode, data_vars, rest_vars>>

\* WindowEvent::MouseInput, button Right
MouseInputRight(st) ==
    /\ Record(Ev("MouseInput", "Right", st))
    /\ IF st = "Pressed"
       THEN /\ last_right_clicked_position' = Some(mouse_position)
            /\ modifiers_when_clicked' = current_modifiers
            /\ Return(MovementEnded, <<<<"process_click", st>>, <<"foccus">>>>)
            /\ UNCHANGED state
       ELSE /\ state' = MoveCamera
            /\ last_right_clicked_position' = None
            /\ Return(IF is_some(last_right_clicked_position)
                      THEN MovementEnded ELSE Nothing,
                      <<<<"process_click", st>>>>)
            /\ UNCHANGED modifiers_when_clicked
    /\ UNCHANGED <<last_left_clicked_position, mouse_position, window_size,
                   area_size, current_modifiers, selection_mode, data_vars, rest_vars>>

\* cursor_moved_return without the Building test of its last branch
cursor_moved_return_no_building(position) ==
    IF is_some(last_left_clicked_position)
    THEN LET clicked_position == unwrap(last_left_clicked_position)
             mouse_dx == Div(position[1] - clicked_position[1], area_size[1])
             mouse_dy == Div(position[2] - clicked_position[2], area_size[2])
             mouse_x == Div(position[1], area_size[1])
             mouse_y == Div(position[2], area_size[2])
         IN CASE state[1] \in {"MoveCamera", "TogglingWidget"} ->
                   Return(CameraMoved, <<<<"process_mouse", mouse_dx, mouse_dy>>>>)
              [] state[1] = "Translate" ->
                   Return(Translation(state[2], mouse_x, mouse_y), <<>>)
              [] state[1] = "Rotate" ->
                   Return(Rotation(state[2], mouse_x, mouse_y), <<>>)
              [] state[1] = "Building" ->
                   Return(Nothing, <<>>)
    ELSE IF is_some(last_right_clicked_position)
    THEN LET clicked_position == unwrap(last_right_clicked_position)
             mouse_dx == Div(position[1] - clicked_position[1], area_size[1])
             mouse_dy == Div(position[2] - clicked_position[2], area_size[2])
         IN Return(Swing(mouse_dx, mouse_dy), <<>>)
    ELSE Return(CursorMovedTo(position), <<>>)

\* cursor_moved_return reporting the displacement from the click origin in
\* Translation and Rotation
cursor_moved_return_delta(position) ==
    IF is_some(last_left_clicked_position)
    THEN LET clicked_position == unwrap(last_left_clicked_position)
             mouse_dx == Div(position[1] - clicked_position[1], area_size[1])
             mouse_dy == Div(position[2] - clicked_position[2], area_size[2])
         IN CASE state[1] \in {"MoveCamera", "TogglingWidget"} ->
                   Return(CameraMoved, <<<<"process_mouse", mouse_dx, mouse_dy>>>>)
              [] state[1] = "Translate" ->
                   Return(Translation(state[2], mouse_dx, mouse_dy), <<>>)
              [] state[1] = "Rotate" ->
                   Return(Rotation(state[2], mouse_dx, mouse_dy), <<>>)
              [] state[1] = "Building" ->
                   Return(Nothing, <<>>)
    ELSE IF is_some(last_right_clicked_position)
    THEN LET clicked_position == unwrap(last_right_clicked_position)
             mouse_dx == Div(position[1] - clicked_position[1], area_size[1])
             mouse_dy == Div(position[2] - clicked_position[2], area_size[2])
         IN Return(Swing(mouse_dx, mouse_dy), <<>>)
    ELSE IF state[1] = "Building"
    THEN Return(Nothing, <<>>)
    ELSE Return(CursorMovedTo(position), <<>>)

\* what a cursor move to `position` returns, by the click origins recorded
\* and the state
cursor_moved_return(position) ==
    IF is_some(last_left_clicked_position)
    THEN LET clicked_position == unwrap(last_left_clicked_position)
             mouse_dx == Div(position[1] - clicked_position[1], area_size[1])
             mouse_dy == Div(position[2] - clicked_position[2], area_size[2])
             mouse_x == Div(position[1], area_size[1])
             mouse_y == Div(position[2], area_size[2])
         IN CASE state[1] \in {"MoveCamera", "TogglingWidget"} ->
                   Return(CameraMoved, <<<<"process_mouse", mouse_dx, mouse_dy>>>>)
              [] state[1] = "Translate" ->
                   Return(Translation(state[2], mouse_x, mouse_y), <<>>)
              [] state[1] = "Rotate" ->
                   Return(Rotation(state[2], mouse_x, mouse_y), <<>>)
              [] state[1] = "Building" ->
                   Return(Nothing, <<>>)
    ELSE IF is_some(last_right_clicked_position)
    THEN LET clicked_position == unwrap(last_right_clicked_position)
             mouse_dx == Div(position[1] - clicked_position[1], area_size[1])
             mouse_dy == Div(position[2] - clicked_position[2], area_size[2])
         IN Return(Swing(mouse_dx, mouse_dy), <<>>)
    ELSE IF state[1] = "Building"
    THEN Return(Nothing, <<>>)
    ELSE Return(CursorMovedTo(position), <<>>)

\* WindowEvent::CursorMoved; `position` is the second argument of `input`
CursorMoved(position) ==
    /\ Record(Ev("CursorMoved", position, "none"))
    /\ mouse_position' = position
    /\ cursor_moved_return(position)
    /\ UNCHANGED <<state, last_left_clicked_position, last_right_clicked_position,
                   window_size, area_size, current_modifiers,
                   modifiers_when_clicked, selection_mode, data_vars, rest_vars>>

\* every other WindowEvent, a key event without a key code included
OtherEvent ==
    /\ Record(Ev("Other", "none", "none"))
    /\ Return(Nothing, <<>>)
    /\ UNCHANGED <<ctrl_vars, selection_mode, data_vars, rest_vars>>

\* notify without its `else` arm: None and non-widget elements keep the state
notify_state_keep(element) ==
    IF is_some(element) /\ unwrap(element)[1] = "WidgetElement"
    THEN LET widget_id == unwrap(element)[2] IN
         CASE widget_id = "RIGHT_HANDLE_ID" -> Translate("Right")
           [] widget_id = "UP_HANDLE_ID" -> Translate("Up")
           [] widget_id = "DIR_HANDLE_ID" -> Translate("Dir")
           [] widget_id = "RIGHT_CIRCLE_ID" -> Rotate("Right")
           [] widget_id = "UP_CIRCLE_ID" -> Rotate("Up")
           [] widget_id = "FRONT_CIRCLE_ID" -> Rotate("Front")
           [] widget_id = "SPHERE_WIDGET_ID" -> TogglingWidget
           [] OTHER -> MoveCamera
    ELSE state

\* the state Controller::notify selects for the element it is given
notify_state(element) ==
    IF is_some(element) /\ unwrap(element)[1] = "WidgetElement"
    THEN LET widget_id == unwrap(element)[2] IN
         CASE widget_id = "RIGHT_HANDLE_ID" -> Translate("Right")
           [] widget_id = "UP_HANDLE_ID" -> Translate("Up")
           [] widget_id = "DIR_HANDLE_ID" -> Translate("Dir")
           [] widget_id = "RIGHT_CIRCLE_ID" -> Rotate("Right")
           [] widget_id = "UP_CIRCLE_ID" -> Rotate("Up")
           [] widget_id = "FRONT_CIRCLE_ID" -> Rotate("Front")
           [] widget_id = "SPHERE_WIDGET_ID" -> TogglingWidget
           [] OTHER -> MoveCamera
    ELSE MoveCamera

\* Controller::notify
Notify(element) ==
    /\ Record(Ev("notify", element, "none"))
    /\ state' = notify_state(element)
    /\ Return(Unit, <<>>)
    /\ UNCHANGED <<last_left_clicked_position, last_right_clicked_position,
                   mouse_position, window_size, area_size, current_modifiers,
                   modifiers_when_clicked, selection_mode, data_vars, rest_vars>>

\* Controller::resize
Resize(new_window_size, new_area_size) ==
    /\ Record(Ev("resize", "none", "none"))
    /\ window_size' = new_window_size
    /\ area_size' = new_area_size
    /\ Return(Unit, <<<<"resize", new_area_size>>,
                      <<"view.update", "Size", new_window_size>>>>)
    /\ UNCHANGED <<state, last_left_clicked_position, last_right_clicked_position,
                   mouse_position, current_modifiers, modifiers_when_clicked,
                   selection_mode, data_vars, rest_vars>>

(***************************************************************************)
(* Spec: the controller under pointer events, notify and resize.           *)
(***************************************************************************)
Next ==
    \/ \E d \in ScrollDeltas : MouseWheel(d)
    \/ CursorLeft
    \/ \E st \in ElementStates, offer \in {None} \cup {Some(b) : b \in Builders} :
          MouseInputLeft(st, offer) /\ UNCHANGED camera_left
    \/ \E st \in ElementStates : MouseInputRight(st)
    \/ \E p \in Positions : CursorMoved(p)
    \/ OtherEvent
    \/ \E e \in OptSceneElements : Notify(e)
    \/ \E l \in Layouts : Resize(l[1], l[2])

Spec == Init /\ [][Next]_vars

(***************************************************************************)
(* SpecKeys: the controller under keyboard and button events.              *)
(***************************************************************************)
NextKeys ==
    \/ \E m \in ModifiersStates : ModifiersChanged(m)
    \/ \E k \in VirtualKeyCodes, st \in ElementStates, moved \in BOOLEAN :
          KeyboardInput(k, st, moved)
    \/ \E st \in ElementStates, offer \in {None} \cup {Some(b) : b \in Builders} :
          MouseInputLeft(st, offer) /\ UNCHANGED camera_left
    \/ \E st \in ElementStates : MouseInputRight(st)
    \/ OtherEvent

SpecKeys == Init /\ [][NextKeys]_vars

(***************************************************************************)
(* The scene data layer (scene/data.rs).                                   *)
(*                                                                         *)
(* Design3D: the topology a design answers queries from.  A design has     *)
(* NumNucl nucleotides 0 .. NumNucl-1; nucleotides 2k and 2k+1 make strand *)
(* k and are joined by the bound NumNucl+k; a strand starts on helix 0 and *)
(* crosses over to helix 1.                                                *)
(***************************************************************************)
Design3Ds == {"design"}
Nucleotides == 0 .. NumNucl - 1
BoundIds == {NumNucl + k : k \in 0 .. (NumNucl \div 2) - 1}
\* the design "strand" is one strand of StrandLen nucleotides
\* 0 .. StrandLen-1 on one helix, joined by the bounds
\* StrandLen .. 2*StrandLen-2
StrandNucleotides == 0 .. StrandLen - 1

get_all_elements(design) ==
    IF design = "strand" THEN 0 .. 2 * StrandLen - 2
    ELSE Nucleotides \cup BoundIds
\* Option<ObjectType>
get_element_type(design, e) ==
    IF e \notin get_all_elements(design) THEN None
    ELSE IF design = "strand"
    THEN (IF e \in StrandNucleotides THEN Some("Nucleotide") ELSE Some("Bound"))
    ELSE (IF e \in Nucleotides THEN Some("Nucleotide") ELSE Some("Bound"))
get_strand(design, e) ==
    IF design = "strand" THEN 0
    ELSE IF e \in Nucleotides THEN e \div 2 ELSE e - NumNucl
get_helix(design, e) ==
    IF design = "strand" THEN 0
    ELSE IF e \in Nucleotides THEN e % 2 ELSE 0
get_strand_elements(design, s) ==
    {e \in get_all_elements(design) : get_strand(design, e) = s}
get_helix_elements(design, h) ==
    {e \in get_all_elements(design) : get_helix(design, e) = h}
\* Option<Vec3>: the position of an element of the design
Design3D_get_element_position(design, e) ==
    IF e \in get_all_elements(design) THEN Some(<<e, 0, 0>>) ELSE None

\* the element references a caller passes: a design identifier and an
\* element of a design
ElementRefs == {<<d, e>> : d \in 0 .. MaxDesigns - 1, e \in Nucleotides \cup BoundIds}

\* `self` at the start of a call; `updates` collects the ViewUpdates the
\* call sends to the view
self ==
    [designs |-> designs, selected |-> selected, candidates |-> candidates,
     selection_mode |-> selection_mode, action_mode |-> action_mode,
     selected_position |-> selected_position,
     selection_update |-> selection_update,
     candidate_update |-> candidate_update,
     instance_update |-> instance_update,
     matrices_update |-> matrices_update,
     widget_basis |-> widget_basis,
     panicked |-> FALSE, updates |-> <<>>]

\* `self.designs[design_id as usize]` is in bounds
in_bounds(D, design_id) == design_id < Len(D.designs)
\* the design at `design_id`, when in bounds
design_at(D, design_id) == D.designs[design_id + 1]
\* a panic stops the call where it is
panic(D) == [D EXCEPT !.panicked = TRUE]
\* self.view.borrow_mut().update(ViewUpdate::kind(content))
view_update(D, kind, content) ==
    [D EXCEPT !.updates = Append(@, <<"view.update", kind, content>>)]

(***************************************************************************)
(* The methods of Data, as functions from `self` to `self` after the call. *)
(***************************************************************************)
notify_instance_update(D) == [D EXCEPT !.instance_update = TRUE]

notify_matrices_update(D) == [D EXCEPT !.matrices_update = TRUE]

add_design(D, design) ==
    notify_matrices_update(notify_instance_update(
        [D EXCEPT !.designs = Append(@, design)]))

\* WidgetBasis::toggle
WidgetBasis_toggle(w) == IF w = "World" THEN "Object" ELSE "World"

toggle_widget_basis(D) ==
    [D EXCEPT !.widget_basis = IF is_some(@) THEN Some(WidgetBasis_toggle(unwrap(@)))
                               ELSE None]

get_group_identifier(D, design_id, element_id) ==
    CASE D.selection_mode = "Nucleotide" -> element_id
      [] D.selection_mode = "Design" -> design_id
      [] D.selection_mode = "Strand" -> get_strand(design_at(D, design_id), element_id)
      [] D.selection_mode = "Helix" -> get_helix(design_at(D, design_id), element_id)

\* Strand mode asks for the elements of the helix
get_group_member_swapped(D, design_id, group_id) ==
    CASE D.selection_mode = "Nucleotide" -> {group_id}
      [] D.selection_mode = "Design" -> get_all_elements(design_at(D, design_id))
      [] D.selection_mode = "Strand" ->
             get_helix_elements(design_at(D, design_id), group_id)
      [] D.selection_mode = "Helix" ->
             get_helix_elements(design_at(D, design_id), group_id)

get_group_member(D, design_id, group_id) ==
    CASE D.selection_mode = "Nucleotide" -> {group_id}
      [] D.selection_mode = "Design" -> get_all_elements(design_at(D, design_id))
      [] D.selection_mode = "Strand" ->
             get_strand_elements(design_at(D, design_id), group_id)
      [] D.selection_mode = "Helix" ->
             get_helix_elements(design_at(D, design_id), group_id)

\* Data::get_element_position panics on a design index out of bounds and on
\* the `unwrap` of None
element_position_panics(D, design_id, element_id) ==
    \/ ~in_bounds(D, design_id)
    \/ Design3D_get_element_position(design_at(D, design_id), element_id) = None

get_element_position(D, design_id, element_id) ==
    unwrap(Design3D_get_element_position(design_at(D, design_id), element_id))

\* the arm of set_selection taken when the selection differs is taken
\* for every selection
set_selection_flagging(D, design_id, element_id) ==
    LET future_selection == <<<<design_id, element_id>>>>
        D1 == [D EXCEPT !.widget_basis = Some("World"), !.selection_update = TRUE]
        D2 == [D1 EXCEPT !.selected = future_selection]
    IN  IF element_position_panics(D2, design_id, element_id) THEN panic(D2)
        ELSE [D2 EXCEPT !.selected_position =
                            Some(get_element_position(D2, design_id, element_id))]

\* set_selection without the assignment of selected_position
set_selection_no_position(D, design_id, element_id) ==
    LET future_selection == <<<<design_id, element_id>>>>
        D1 == IF D.selected = future_selection
              THEN toggle_widget_basis(D)
              ELSE [D EXCEPT !.widget_basis = Some("World"),
                             !.selection_update = TRUE]
    IN  [D1 EXCEPT !.selected = future_selection]

\* Data::set_selection: `self` after the call, or where it panicked
set_selection(D, design_id, element_id) ==
    LET future_selection == <<<<design_id, element_id>>>>
        D1 == IF D.selected = future_selection
              THEN toggle_widget_basis(D)
              ELSE [D EXCEPT !.widget_basis = Some("World"),
                             !.selection_update = TRUE]
        D2 == [D1 EXCEPT !.selected = future_selection]
    IN  IF element_position_panics(D2, design_id, element_id) THEN panic(D2)
        ELSE [D2 EXCEPT !.selected_position =
                            Some(get_element_position(D2, design_id, element_id))]

\* the Selection that set_selection returns
set_selection_return(D, design_id, element_id) ==
    IF D.selection_mode = "Design" THEN <<"Design", design_id>>
    ELSE <<D.selection_mode, design_id,
           get_group_identifier(D, design_id, element_id)>>

\* end_movement raising selection_update
end_movement_flagging(D) ==
    [D EXCEPT !.selection_update = TRUE]

\* Data::end_movement
end_movement(D) ==
    IF D.selected = <<>> THEN [D EXCEPT !.selected_position = None]
    ELSE LET first == D.selected[1] IN
         IF element_position_panics(D, first[1], first[2]) THEN panic(D)
         ELSE [D EXCEPT !.selected_position =
                            Some(get_element_position(D, first[1], first[2]))]

\* reset_selection without `selection_update |= ...`
reset_selection_silent(D) ==
    [D EXCEPT !.selected_position = None, !.selected = <<>>]

reset_selection(D) ==
    [D EXCEPT !.selection_update = @ \/ D.selected # <<>>,
              !.selected_position = None,
              !.selected = <<>>]

set_candidate(D, design_id, element_id) ==
    LET future_candidate == <<<<design_id, element_id>>>> IN
    [D EXCEPT !.candidate_update = @ \/ D.candidates = future_candidate,
              !.candidates = future_candidate]

reset_candidate(D) ==
    [D EXCEPT !.candidate_update = @ \/ D.candidates # <<>>,
              !.candidates = <<>>]

clear_designs(D) ==
    notify_matrices_update(notify_instance_update(reset_candidate(reset_selection(
        [D EXCEPT !.designs = <<>>, !.selected = <<>>, !.candidates = <<>>]))))

Range(seq) == {seq[i] : i \in DOMAIN seq}

\* the loop with `ret = group` for `ret.insert`: the last group only
RECURSIVE expand_last(_, _, _)
expand_last(D, refs, object_type) ==
    IF refs = <<>> THEN {}
    ELSE LET r == refs[Len(refs)]
             group == get_group_member(D, r[1], get_group_identifier(D, r[1], r[2]))
         IN  {<<r[1], elt>> : elt \in
                 {x \in group : get_element_type(design_at(D, r[1]), x) = Some(object_type)}}

\* the loop without the `same_type` test
RECURSIVE expand_unfiltered(_, _, _)
expand_unfiltered(D, refs, object_type) ==
    IF refs = <<>> THEN {}
    ELSE LET r == refs[Len(refs)]
             group == get_group_member(D, r[1], get_group_identifier(D, r[1], r[2]))
         IN  expand_unfiltered(D, SubSeq(refs, 1, Len(refs) - 1), object_type)
                 \cup {<<r[1], elt>> : elt \in group}

\* the loop of expand_selection / expand_candidate over the Vec `refs`, in
\* order: every element of the group of a reference whose type is
\* object_type is inserted into the HashSet `ret`
RECURSIVE expand(_, _, _)
expand(D, refs, object_type) ==
    IF refs = <<>> THEN {}
    ELSE LET r == refs[Len(refs)]
             group == get_group_member(D, r[1], get_group_identifier(D, r[1], r[2]))
         IN  expand(D, SubSeq(refs, 1, Len(refs) - 1), object_type)
                 \cup {<<r[1], elt>> : elt \in
                         {x \in group :
                             get_element_type(design_at(D, r[1]), x) = Some(object_type)}}

\* the loop panics on a design index out of bounds and on the `unwrap` of
\* the type of something that is no element
expand_panics(D, refs) ==
    \E r \in Range(refs) :
        \/ ~in_bounds(D, r[1])
        \/ \E elt \in get_group_member(D, r[1], get_group_identifier(D, r[1], r[2])) :
              get_element_type(design_at(D, r[1]), elt) = None

expand_selection(D, object_type) == expand(D, D.selected, object_type)

expand_candidate(D, object_type) == expand(D, D.candidates, object_type)

\* the phantom helices: <<design, helix>> for the selected helices
get_phantom_instances(D) ==
    IF D.selected = <<>> \/ D.selection_mode # "Helix" THEN {}
    ELSE {<<D.selected[1][1], get_group_identifier(D, r[1], r[2])>> :
             r \in Range(D.selected)}

update_selection(D) ==
    IF expand_panics(D, D.selected) THEN panic(D)
    ELSE view_update(
           view_update(
             view_update(D, "SelectedTubes", expand_selection(D, "Bound")),
             "SelectedSpheres", expand_selection(D, "Nucleotide")),
           "PhantomInstances", get_phantom_instances(D))

update_candidate(D) ==
    IF expand_panics(D, D.candidates) THEN panic(D)
    ELSE view_update(
           view_update(D, "CandidateTubes", expand_candidate(D, "Bound")),
           "CandidateSpheres", expand_candidate(D, "Nucleotide"))

\* the tubes, then the spheres, of all designs
update_instances(D) ==
    LET of_type(t) ==
            UNION {{<<d - 1, e>> : e \in {x \in get_all_elements(D.designs[d]) :
                                            get_element_type(D.designs[d], x) = Some(t)}}
                   : d \in DOMAIN D.designs}
    IN  view_update(view_update(D, "Tubes", of_type("Bound")),
                    "Spheres", of_type("Nucleotide"))

\* one model matrix per design
update_matrices(D) == view_update(D, "ModelMatrices", Len(D.designs))

(***************************************************************************)
(* update_view: its four `if` blocks, each skipped after a panic.          *)
(***************************************************************************)
view_instances(D) ==
    IF D.panicked \/ ~D.instance_update THEN D
    ELSE [update_instances(D) EXCEPT !.instance_update = FALSE]

view_selection(D) ==
    IF D.panicked \/ ~D.selection_update THEN D
    ELSE LET U == update_selection(D) IN
         IF U.panicked THEN U ELSE [U EXCEPT !.selection_update = FALSE]

view_candidate(D) ==
    IF D.panicked \/ ~D.candidate_update THEN D
    ELSE LET U == update_candidate(D) IN
         IF U.panicked THEN U ELSE [U EXCEPT !.candidate_update = FALSE]

view_matrices(D) ==
    IF D.panicked \/ ~D.matrices_update THEN D
    ELSE [update_matrices(D) EXCEPT !.matrices_update = FALSE]

\* update_view that leaves matrices_update as it is
update_view_keep_matrices(D) ==
    LET M == view_candidate(view_selection(view_instances(D))) IN
    IF M.panicked \/ ~M.matrices_update THEN M ELSE update_matrices(M)

\* update_view with the selection block first
update_view_selection_first(D) ==
    view_matrices(view_candidate(view_instances(view_selection(D))))

update_view(D) ==
    view_matrices(view_candidate(view_selection(view_instances(D))))

(***************************************************************************)
(* The calls on Data.  A call is not made after a panic: the program has   *)
(* stopped.                                                                *)
(***************************************************************************)
Store(D) ==
    /\ designs' = D.designs
    /\ selected' = D.selected
    /\ candidates' = D.candidates
    /\ selection_mode' = D.selection_mode
    /\ action_mode' = D.action_mode
    /\ selected_position' = D.selected_position
    /\ selection_update' = D.selection_update
    /\ candidate_update' = D.candidate_update
    /\ instance_update' = D.instance_update
    /\ matrices_update' = D.matrices_update
    /\ widget_basis' = D.widget_basis
    /\ panicked' = D.panicked

\* the call `ev` takes `self` to D, sends D.updates to the view and returns ret
DataCall(ev, D, ret) ==
    /\ ~panicked
    /\ Record(ev)
    /\ Store(D)
    /\ Return(ret, D.updates)
    /\ UNCHANGED <<ctrl_vars, rest_vars>>

Data_add_design(design) ==
    /\ Len(designs) < MaxDesigns
    /\ DataCall(Ev("add_design", "none", "none"), add_design(self, design), Unit)

Data_clear_designs ==
    DataCall(Ev("clear_designs", "none", "none"), clear_designs(self), Unit)

Data_update_view ==
    DataCall(Ev("update_view", "none", "none"), update_view(self), Unit)

Data_set_selection(design_id, element_id) ==
    LET D == set_selection(self, design_id, element_id) IN
    DataCall(Ev("set_selection", design_id, element_id), D,
             IF D.panicked THEN Unit
             ELSE set_selection_return(D, design_id, element_id))

Data_end_movement ==
    DataCall(Ev("end_movement", "none", "none"), end_movement(self), Unit)

Data_reset_selection ==
    DataCall(Ev("reset_selection", "none", "none"), reset_selection(self), Unit)

Data_set_candidate(design_id, element_id) ==
    DataCall(Ev("set_candidate", design_id, element_id),
             set_candidate(self, design_id, element_id), Unit)

Data_reset_candidate ==
    DataCall(Ev("reset_candidate", "none", "none"), reset_candidate(self), Unit)

Data_notify_instance_update ==
    DataCall(Ev("notify_instance_update", "none", "none"),
             notify_instance_update(self), Unit)

Data_notify_matrices_update ==
    DataCall(Ev("notify_matrices_update", "none", "none"),
             notify_matrices_update(self), Unit)

Data_toggle_selection_mode ==
    DataCall(Ev("toggle_selection_mode", "none", "none"),
             [self EXCEPT !.selection_mode = toggle_selection_mode(@)], Unit)

Data_change_selection_mode(mode) ==
    DataCall(Ev("change_selection_mode", mode, "none"),
             [self EXCEPT !.selection_mode = mode], Unit)

Data_change_action_mode(mode) ==
    DataCall(Ev("change_action_mode", mode, "none"),
             [self EXCEPT !.action_mode = mode], Unit)

Data_toggle_widget_basis ==
    DataCall(Ev("toggle_widget_basis", "none", "none"), toggle_widget_basis(self), Unit)

\* the getters that cannot panic, and what they return
Getters == {"get_selected_designs", "get_selected_position", "get_action_mode"}
Data_get(getter) ==
    DataCall(Ev(getter, "none", "none"), self,
             CASE getter = "get_selected_designs" -> <<{r[1] : r \in Range(selected)}>>
               [] getter = "get_selected_position" -> <<selected_position>>
               [] getter = "get_action_mode" -> <<action_mode>>)

\* get_selected_spheres, get_selected_tubes, get_candidate_spheres and
\* get_candidate_tubes: one Instance per element of the expansion
InstanceGetters == {<<"get_selected_spheres", "Nucleotide">>,
                    <<"get_selected_tubes", "Bound">>,
                    <<"get_candidate_spheres", "Nucleotide">>,
                    <<"get_candidate_tubes", "Bound">>}
Data_get_instances(getter) ==
    LET refs == IF getter[1] \in {"get_selected_spheres", "get_selected_tubes"}
                THEN selected ELSE candidates
    IN  IF expand_panics(self, refs)
        THEN DataCall(Ev(getter[1], "none", "none"), panic(self), Unit)
        ELSE DataCall(Ev(getter[1], "none", "none"), self,
                      <<"Instances", expand(self, refs, getter[2])>>)

(***************************************************************************)
(* SpecData: the data layer under the calls that change the designs, the   *)
(* selection, the candidates and the granularity, with update_view         *)
(* between them.  The T key reaches toggle_selection_mode through the      *)
(* controller.                                                             *)
(***************************************************************************)
NextData ==
    \/ \E design \in Design3Ds : Data_add_design(design)
    \/ Data_clear_designs
    \/ Data_update_view
    \/ \E r \in ElementRefs : Data_set_selection(r[1], r[2])
    \/ Data_end_movement
    \/ Data_reset_selection
    \/ \E r \in ElementRefs : Data_set_candidate(r[1], r[2])
    \/ Data_reset_candidate
    \/ Data_toggle_widget_basis
    \/ ~panicked /\ KeyboardInput("T", "Released", FALSE)

\* the data layer reads neither size: one layout is enough
InitData == Init /\ window_size = <<8, 6>>

SpecData == InitData /\ [][NextData]_vars

(***************************************************************************)
(* SpecFlags: every call on Data, on few element references, for the       *)
(* properties of the four dirty flags.                                     *)
(***************************************************************************)
FlagRefs == {<<0, 0>>, <<0, 1>>}

NextFlags ==
    \/ \E design \in Design3Ds : Data_add_design(design)
    \/ Data_clear_designs
    \/ Data_update_view
    \/ \E r \in FlagRefs : Data_set_selection(r[1], r[2])
    \/ Data_end_movement
    \/ Data_reset_selection
    \/ Data_set_candidate(0, 0)
    \/ Data_reset_candidate
    \/ Data_notify_instance_update
    \/ Data_notify_matrices_update
    \/ Data_toggle_selection_mode
    \/ \E mode \in {"Nucleotide", "Helix"} : Data_change_selection_mode(mode)
    \/ \E mode \in {"Normal", "Build"} : Data_change_action_mode(mode)
    \/ Data_toggle_widget_basis
    \/ \E getter \in Getters : Data_get(getter)

SpecFlags == InitData /\ [][NextFlags]_vars

(***************************************************************************)
(* SpecExpand: the expansion functions on selections of up to MaxSelected  *)
(* references of one design, in any order and with repetitions; the        *)
(* candidates are the same references in the opposite order.               *)
(***************************************************************************)
InitExpand ==
    /\ state = MoveCamera
    /\ last_left_clicked_position = None
    /\ last_right_clicked_position = None
    /\ mouse_position = <<0, 0>>
    /\ window_size = <<8, 6>> /\ area_size = <<6, 6>>
    /\ current_modifiers = {}
    /\ modifiers_when_clicked = {}
    /\ selection_mode \in SelectionModes
    /\ designs = <<"design">>
    /\ selected \in UNION {[1..n -> {r \in ElementRefs : r[1] = 0}] : n \in 0..MaxSelected}
    /\ candidates = [i \in DOMAIN selected |-> selected[Len(selected) + 1 - i]]
    /\ action_mode = "Normal"
    /\ selected_position = IF selected = <<>> THEN None
                           ELSE Design3D_get_element_position("design", selected[1][2])
    /\ selection_update = TRUE
    /\ candidate_update = TRUE
    /\ instance_update = TRUE
    /\ matrices_update = TRUE
    /\ widget_basis = IF selected = <<>> THEN None ELSE Some("World")
    /\ panicked = FALSE
    /\ event = Ev("new", "none", "none")
    /\ consequence = Nothing
    /\ calls = <<>>
    /\ tick = 0
    /\ InitRest

NextExpand ==
    \/ \E getter \in InstanceGetters : Data_get_instances(getter)
    \/ Data_update_view
    \/ Data_toggle_selection_mode

SpecExpand == InitExpand /\ [][NextExpand]_vars

(***************************************************************************)
(* SpecStrand: the data layer holding designs of one strand on one helix,  *)
(* under selections in every mode.                                         *)
(***************************************************************************)
NextStrand ==
    \/ Data_add_design("strand")
    \/ \E mode \in SelectionModes : Data_change_selection_mode(mode)
    \/ \E d \in 0 .. MaxDesigns - 1, e \in get_all_elements("strand") :
          Data_set_selection(d, e)
    \/ \E getter \in {g \in InstanceGetters : g[1] \in {"get_selected_spheres",
                                                        "get_selected_tubes"}} :
          Data_get_instances(getter)
    \/ Data_update_view

SpecStrand == InitData /\ [][NextStrand]_vars

(***************************************************************************)
(* Properties of the input controller.                                     *)
(***************************************************************************)
LeftPressed == Ev("MouseInput", "Left", "Pressed")
LeftReleased == Ev("MouseInput", "Left", "Released")
RightReleased == Ev("MouseInput", "Right", "Released")

\* C1: a left release handled in MoveCamera while the origin P of a left
\* press is recorded, the cursor being at Q, reports PixelSelected(P) when
\* max(|Px-Qx|, |Py-Qy|) < 5 and MovementEnded when it is >= 5; a left press
\* handled on the camera-click path in MoveCamera records the cursor
\* position as the origin.
C1_ClickOrDrag ==
    [][/\ (event' = LeftReleased /\ state = MoveCamera
             /\ is_some(last_left_clicked_position))
          => LET P == unwrap(last_left_clicked_position)
                 Q == mouse_position
                 dx == IF P[1] > Q[1] THEN P[1] - Q[1] ELSE Q[1] - P[1]
                 dy == IF P[2] > Q[2] THEN P[2] - Q[2] ELSE Q[2] - P[2]
             IN IF dx < 5 /\ dy < 5
                THEN consequence' = PixelSelected(P)
                ELSE consequence' = MovementEnded
       /\ (event' = LeftPressed /\ state = MoveCamera /\ state' = MoveCamera)
          => last_left_clicked_position' = Some(mouse_position)
      ]_vars

\* a click: the press was at (4, 0), the release at (0, 0), in MoveCamera
C1_Witness ==
    /\ event = LeftReleased
    /\ ~Called("println")
    /\ consequence = PixelSelected(<<ClickThreshold - 1, 0>>)
    /\ mouse_position = <<0, 0>>

\* C2: the controller starts in MoveCamera, and after every notify the state
\* is the one its argument names: Translate(axis) for a handle, Rotate(axis)
\* for a circle, TogglingWidget for the sphere, MoveCamera for any other
\* widget, for a non-widget element and for None.
C2_NotifyState ==
    /\ event[1] = "new" => state = MoveCamera
    /\ event[1] = "notify" =>
         LET element == event[2]
             widget == IF is_some(element) /\ element[1][1] = "WidgetElement"
                       THEN element[1][2] ELSE "not a widget"
         IN /\ widget = "RIGHT_HANDLE_ID" => state = <<"Translate", "Right">>
            /\ widget = "UP_HANDLE_ID" => state = <<"Translate", "Up">>
            /\ widget = "DIR_HANDLE_ID" => state = <<"Translate", "Dir">>
            /\ widget = "RIGHT_CIRCLE_ID" => state = <<"Rotate", "Right">>
            /\ widget = "UP_CIRCLE_ID" => state = <<"Rotate", "Up">>
            /\ widget = "FRONT_CIRCLE_ID" => state = <<"Rotate", "Front">>
            /\ widget = "SPHERE_WIDGET_ID" => state = <<"TogglingWidget">>
            /\ widget \in {"OTHER_WIDGET_ID", "not a widget"}
                 => state = <<"MoveCamera">>

\* notify(None) handled while a left origin is recorded, so not from the
\* initial state
C2_Witness ==
    /\ event[1] = "notify"
    /\ event[2] = None
    /\ state = MoveCamera
    /\ is_some(last_left_clicked_position)

\* C3: a right button event reports MovementEnded exactly when it is a
\* release handled while a right click origin is recorded; every other right
\* button event, every press included, reports Nothing.
C3_RightButtonReports ==
    [][(event'[1] = "MouseInput" /\ event'[2] = "Right")
         => IF event'[3] = "Released" /\ is_some(last_right_clicked_position)
            THEN consequence' = MovementEnded
            ELSE consequence' = Nothing
      ]_vars

\* C4: Building is entered only by a left press handled in MoveCamera while
\* get_strand_builder offers a builder, and that press holds the builder,
\* reports Nothing and records the click origin; a left press in MoveCamera
\* without a builder goes through left_click_camera and stays in MoveCamera;
\* a left press in Translate, Rotate or TogglingWidget keeps the state,
\* whether a builder is offered or not.
C4_EnterBuilding ==
    [][/\ (state'[1] = "Building" /\ state' # state)
          => /\ event' = LeftPressed
             /\ state = MoveCamera
             /\ calls'[1] = <<"get_strand_builder", Some(state'[2])>>
             /\ consequence' = Nothing
             /\ last_left_clicked_position' = Some(mouse_position)
       /\ (event' = LeftPressed /\ state = MoveCamera
             /\ calls'[1] = <<"get_strand_builder", None>>)
          => /\ state' = MoveCamera
             /\ \E i \in DOMAIN calls' : calls'[i] = <<"process_click", "Pressed">>
       /\ (event' = LeftPressed
             /\ state[1] \in {"Translate", "Rotate", "TogglingWidget"})
          => state' = state
      ]_vars

\* the press that entered Building
C4_Witness ==
    /\ state[1] = "Building"
    /\ event = LeftPressed
    /\ calls = <<<<"get_strand_builder", Some(state[2])>>>>
    /\ consequence = Nothing
    /\ last_left_clicked_position = Some(mouse_position)

\* C5: in Translate (resp. Rotate) a left press reports InitTranslation
\* (resp. InitRotation) and records the click origin, a left release reports
\* MovementEnded and clears the click origin, and neither changes the state.
C5_TranslateRotateButtons ==
    [][(state[1] \in {"Translate", "Rotate"}
          /\ event'[1] = "MouseInput" /\ event'[2] = "Left")
         => /\ state' = state
            /\ event'[3] = "Pressed"
                 => /\ consequence'[1] = IF state[1] = "Translate"
                                         THEN "InitTranslation"
                                         ELSE "InitRotation"
                    /\ last_left_clicked_position' = Some(mouse_position)
            /\ event'[3] = "Released"
                 => /\ consequence' = MovementEnded
                    /\ last_left_clicked_position' = None
      ]_vars

\* a release in Translate, away from the initial cursor position
C5_Witness ==
    /\ state[1] = "Translate"
    /\ event = LeftReleased
    /\ consequence = MovementEnded
    /\ last_left_clicked_position = None
    /\ mouse_position # <<0, 0>>

\* C6: in TogglingWidget a left press reports ToggleWidget and a left release
\* reports MovementEnded, and the state leaves TogglingWidget only by a
\* notify call or a right release.
C6_TogglingWidget ==
    [][/\ (state = TogglingWidget /\ event' = LeftPressed)
          => consequence' = ToggleWidget
       /\ (state = TogglingWidget /\ event' = LeftReleased)
          => consequence' = MovementEnded
       /\ (state = TogglingWidget /\ state' # TogglingWidget)
          => (event'[1] = "notify" \/ event' = RightReleased)
      ]_vars

\* a press then a release in TogglingWidget
C6_Witness ==
    /\ state = TogglingWidget
    /\ event = LeftReleased
    /\ consequence = MovementEnded

\* C7: a left button event received in Building goes through
\* left_click_camera (the click is forwarded to the camera and the outcome is
\* the camera-click one: a press records the origin, a release is a click, a
\* drag end or nothing), and a left release received in Building leaves the
\* controller in MoveCamera in each of the three cases.
C7_BuildingButtons ==
    [][(state[1] = "Building" /\ event'[1] = "MouseInput" /\ event'[2] = "Left")
         => /\ \E i \in DOMAIN calls' : calls'[i] = <<"process_click", event'[3]>>
            /\ event'[3] = "Pressed"
                 => /\ state' = state
                    /\ last_left_clicked_position' = Some(mouse_position)
            /\ event'[3] = "Released"
                 => /\ state' = MoveCamera
                    /\ last_left_clicked_position' = None
                    /\ IF is_some(last_left_clicked_position)
                       THEN LET P == unwrap(last_left_clicked_position)
                                Q == mouse_position
                            IN IF /\ P[1] - Q[1] < 5 /\ Q[1] - P[1] < 5
                                  /\ P[2] - Q[2] < 5 /\ Q[2] - P[2] < 5
                               THEN consequence' = PixelSelected(P)
                               ELSE consequence' = MovementEnded
                       ELSE consequence' = Nothing
      ]_vars

\* a release handled in Building after the origin was cleared: it reports
\* Nothing and the controller is back in MoveCamera
C7_Witness ==
    /\ event = LeftReleased
    /\ Called("println")
    /\ consequence = Nothing
    /\ state = MoveCamera

\* C8: a cursor move handled while neither click origin is recorded (no
\* button is held) reports CursorMoved(position) in MoveCamera, Translate,
\* Rotate and TogglingWidget and Nothing in Building; every cursor move
\* stores the position it is given as the mouse position.
C8_CursorMovedNoButton ==
    [][event'[1] = "CursorMoved"
         => /\ mouse_position' = event'[2]
            /\ (last_left_clicked_position = None
                  /\ last_right_clicked_position = None)
               => IF state[1] = "Building"
                  THEN consequence' = Nothing
                  ELSE /\ state[1] \in {"MoveCamera", "Translate", "Rotate",
                                        "TogglingWidget"}
                       /\ consequence' = CursorMovedTo(event'[2])
      ]_vars

\* a cursor move in Building with no origin recorded: the origin of the
\* press that entered Building was cleared by CursorLeft
C8_Witness ==
    /\ event[1] = "CursorMoved"
    /\ state[1] = "Building"
    /\ last_left_clicked_position = None
    /\ last_right_clicked_position = None
    /\ consequence = Nothing
    /\ mouse_position = event[2]
    /\ mouse_position # <<0, 0>>

\* equality of two quotients with non-zero denominators
QuotEq(p, q) == p[1] * q[2] = q[1] * p[2]

\* the quotient of the displacement from `origin` to `position` by the size
\* of the draw area, on axis i
Displacement(origin, position, size, i) == <<position[i] - origin[i], size[i]>>

\* C9 as claimed: while a left click origin is recorded, a cursor move
\* reports Translation(axis, dx, dy) in Translate, Rotation(axis, dx, dy) in
\* Rotate and CameraMoved in MoveCamera, (dx, dy) being the displacement of
\* the cursor from the click origin divided by the draw-area width and
\* height.
C9_DisplacementReported ==
    [][(event'[1] = "CursorMoved" /\ is_some(last_left_clicked_position))
         => LET origin == unwrap(last_left_clicked_position)
                dx == Displacement(origin, event'[2], area_size, 1)
                dy == Displacement(origin, event'[2], area_size, 2)
            IN /\ state[1] = "Translate"
                    => /\ consequence'[1] = "Translation"
                       /\ consequence'[2] = state[2]
                       /\ QuotEq(consequence'[3], dx)
                       /\ QuotEq(consequence'[4], dy)
               /\ state[1] = "Rotate"
                    => /\ consequence'[1] = "Rotation"
                       /\ consequence'[2] = state[2]
                       /\ QuotEq(consequence'[3], dx)
                       /\ QuotEq(consequence'[4], dy)
               /\ state[1] = "MoveCamera" => consequence' = CameraMoved
      ]_vars

\* C9 as amended: while a left click origin is recorded, a cursor move
\* reports Translation(axis, x, y) in Translate and Rotation(axis, x, y) in
\* Rotate, (x, y) being the cursor position divided by the draw-area width
\* and height, and CameraMoved in MoveCamera, where the displacement from the
\* click origin divided by the draw-area width and height is what
\* process_mouse is given.
C9_PositionReported ==
    [][(event'[1] = "CursorMoved" /\ is_some(last_left_clicked_position))
         => LET origin == unwrap(last_left_clicked_position)
                zero == <<0, 0>>
                x == Displacement(zero, event'[2], area_size, 1)
                y == Displacement(zero, event'[2], area_size, 2)
                dx == Displacement(origin, event'[2], area_size, 1)
                dy == Displacement(origin, event'[2], area_size, 2)
            IN /\ state[1] = "Translate"
                    => /\ consequence'[1] = "Translation"
                       /\ consequence'[2] = state[2]
                       /\ QuotEq(consequence'[3], x)
                       /\ QuotEq(consequence'[4], y)
               /\ state[1] = "Rotate"
                    => /\ consequence'[1] = "Rotation"
                       /\ consequence'[2] = state[2]
                       /\ QuotEq(consequence'[3], x)
                       /\ QuotEq(consequence'[4], y)
               /\ state[1] = "MoveCamera"
                    => /\ consequence' = CameraMoved
                       /\ Len(calls') = 1
                       /\ calls'[1][1] = "process_mouse"
                       /\ QuotEq(calls'[1][2], dx)
                       /\ QuotEq(calls'[1][3], dy)
      ]_vars

\* a drag in Translate from the origin (4, 0) to (0, 5): the displacement
\* is (-4, 5), the position reported is (0, 5) over the draw-area size
C9_Witness ==
    /\ event[1] = "CursorMoved"
    /\ state[1] = "Translate"
    /\ last_left_clicked_position = Some(<<ClickThreshold - 1, 0>>)
    /\ mouse_position = <<0, ClickThreshold>>
    /\ consequence = Translation(state[2], Div(0, area_size[1]),
                                 Div(ClickThreshold, area_size[2]))

\* C10 as claimed: a key event for T, or for H or L while Shift is held, is
\* never forwarded to process_keyboard and reports Nothing, on the press and
\* on the release; every other key event is forwarded and reports
\* CameraMoved exactly when process_keyboard returned true.
C10_AcceleratorsNeverForwarded ==
    [][event'[1] = "KeyboardInput"
         => LET key == event'[2]
                st == event'[3]
                accelerator == \/ key = "T"
                               \/ (key \in {"H", "L"} /\ "SHIFT" \in current_modifiers)
            IN IF accelerator
               THEN /\ \A i \in DOMAIN calls' : calls'[i][1] # "process_keyboard"
                    /\ consequence' = Nothing
               ELSE /\ Len(calls') = 1
                    /\ calls'[1][1] = "process_keyboard"
                    /\ calls'[1][2] = key /\ calls'[1][3] = st
                    /\ consequence' = IF calls'[1][4] THEN CameraMoved ELSE Nothing
      ]_vars

\* C10 as amended: the release of T, and the press and the release of H or L
\* while Shift is held, are never forwarded to process_keyboard and report
\* Nothing; every other event of a key with a key code, the press of T
\* included, is forwarded and reports CameraMoved exactly when
\* process_keyboard returned true.
C10_AcceleratorsIntercepted ==
    [][event'[1] = "KeyboardInput"
         => LET key == event'[2]
                st == event'[3]
                accelerator == \/ (key = "T" /\ st = "Released")
                               \/ (key \in {"H", "L"} /\ "SHIFT" \in current_modifiers)
            IN IF accelerator
               THEN /\ \A i \in DOMAIN calls' : calls'[i][1] # "process_keyboard"
                    /\ consequence' = Nothing
               ELSE /\ Len(calls') = 1
                    /\ calls'[1][1] = "process_keyboard"
                    /\ calls'[1][2] = key /\ calls'[1][3] = st
                    /\ consequence' = IF calls'[1][4] THEN CameraMoved ELSE Nothing
      ]_vars

\* the press of T while Shift is held, forwarded to the camera
C10_Witness ==
    /\ event = Ev("KeyboardInput", "T", "Pressed")
    /\ "SHIFT" \in current_modifiers
    /\ Len(calls) = 1
    /\ calls[1][1] = "process_keyboard"
    /\ calls[1][2] = "T" /\ calls[1][3] = "Pressed"
    /\ consequence = IF calls[1][4] THEN CameraMoved ELSE Nothing

(***************************************************************************)
(* Properties of the scene data layer.                                     *)
(***************************************************************************)
\* the call handled last is the method `name` of Data
Handled(name) == event[1] = name
\* the step is a call of the method `name` of Data
Handles(name) == event'[1] = name
\* the element reference a set_selection / set_candidate step was given
GivenRef == <<<<event'[2], event'[3]>>>>

\* C11: set_selection with an element reference that differs from the
\* current selection, and reset_selection on a non-empty selection, leave
\* selection_update true.
C11_SelectionMutationFlagged ==
    [][/\ (Handles("set_selection") /\ selected # GivenRef) => selection_update'
       /\ (Handles("reset_selection") /\ selected # <<>>) => selection_update'
       /\ (Handles("set_selection") \/ Handles("reset_selection"))
              /\ selected' # selected => selection_update']_vars

\* set_selection has selected an element and the flag is up
C11_Witness ==
    /\ Handled("set_selection") /\ ~panicked
    /\ selected = <<<<0, 1>>>> /\ selection_update
    /\ widget_basis = Some("World")

\* C12: set_selection with the element that is the current selection
\* toggles the widget basis between World and Object, leaves
\* selection_update and the selection as they are; set_selection with
\* another element resets the widget basis to World.
C12_ReselectionTogglesBasis ==
    [][Handles("set_selection") /\ ~panicked' =>
          IF selected = GivenRef
          THEN /\ widget_basis \in {Some("World"), Some("Object")}
               /\ widget_basis = Some("World") => widget_basis' = Some("Object")
               /\ widget_basis = Some("Object") => widget_basis' = Some("World")
               /\ selection_update' = selection_update
               /\ selected' = selected
          ELSE widget_basis' = Some("World")]_vars

\* the same element has been selected again after the view was updated:
\* the basis is Object and the flag is still down
C12_Witness ==
    /\ Handled("set_selection") /\ ~panicked
    /\ selected = <<<<0, 1>>>>
    /\ widget_basis = Some("Object")
    /\ ~selection_update

\* C13: clear_designs called while the selection (the candidate set) is
\* non-empty leaves selection_update (candidate_update) true; after
\* clear_designs the design list, the selection and the candidate set are
\* empty and selected_position is None.
C13_ClearDesignsFlagged ==
    [][Handles("clear_designs") =>
          /\ selected # <<>> => selection_update'
          /\ candidates # <<>> => candidate_update'
          /\ designs' = <<>> /\ selected' = <<>> /\ candidates' = <<>>
          /\ selected_position' = None]_vars

\* C14: set_candidate with an element reference that differs from the
\* current candidate set sets candidate_update and makes the candidate set
\* exactly that reference; reset_candidate raises candidate_update exactly
\* when the candidate set was non-empty.
C14_CandidateMutationFlagged ==
    [][/\ Handles("set_candidate") /\ candidates # GivenRef =>
              candidate_update' /\ candidates' = GivenRef
       /\ Handles("reset_candidate") =>
              candidate_update' = (candidate_update \/ candidates # <<>>)]_vars

\* C15: when update_view returns, instance_update, selection_update,
\* candidate_update and matrices_update are all false, and no flag that
\* was false when it started is true.
C15_UpdateViewClearsFlags ==
    [][Handles("update_view") /\ ~panicked' =>
          /\ ~instance_update' /\ ~selection_update'
          /\ ~candidate_update' /\ ~matrices_update'
          /\ instance_update' => instance_update
          /\ selection_update' => selection_update
          /\ candidate_update' => candidate_update
          /\ matrices_update' => matrices_update]_vars

\* update_view has returned after sending updates to the view
C15_Witness ==
    /\ Handled("update_view") /\ ~panicked
    /\ calls # <<>>
    /\ ~instance_update /\ ~selection_update
    /\ ~candidate_update /\ ~matrices_update

\* the kinds of the ViewUpdates of the call handled last, in order
UpdateKinds(cs) == [i \in DOMAIN cs |-> cs[i][2]]
\* the updates of the blocks of update_view whose flags are set
ExpectedKinds ==
    (IF instance_update THEN <<"Tubes", "Spheres">> ELSE <<>>)
    \o (IF selection_update
        THEN <<"SelectedTubes", "SelectedSpheres", "PhantomInstances">>
        ELSE <<>>)
    \o (IF candidate_update THEN <<"CandidateTubes", "CandidateSpheres">> ELSE <<>>)
    \o (IF matrices_update THEN <<"ModelMatrices">> ELSE <<>>)
IsPrefix(a, b) == Len(a) <= Len(b) /\ a = SubSeq(b, 1, Len(a))

\* C16: update_view sends the view the updates of the flags that are set
\* and no others, each once, in the order instances, selection, candidate,
\* matrices; a call that panics has sent a prefix of them.
C16_UpdateOrder ==
    [][Handles("update_view") =>
          /\ IsPrefix(UpdateKinds(calls'), ExpectedKinds)
          /\ ~panicked' => UpdateKinds(calls') = ExpectedKinds]_vars

\* one call of update_view has sent all four groups of updates
C16_Witness ==
    /\ Handled("update_view") /\ ~panicked
    /\ UpdateKinds(calls) = <<"Tubes", "Spheres", "SelectedTubes", "SelectedSpheres",
                              "PhantomInstances", "CandidateTubes",
                              "CandidateSpheres", "ModelMatrices">>

DirtyFlags == <<instance_update, selection_update, candidate_update, matrices_update>>
Raisers == {"add_design", "clear_designs", "notify_instance_update",
            "notify_matrices_update", "set_selection", "reset_selection",
            "set_candidate", "reset_candidate"}
Neutrals == {"toggle_selection_mode", "change_selection_mode", "change_action_mode",
             "end_movement", "toggle_widget_basis"} \cup Getters

\* C17: a dirty flag goes from false to true only in add_design,
\* clear_designs, notify_instance_update, notify_matrices_update,
\* set_selection, reset_selection, set_candidate and reset_candidate, and
\* from true to false only in update_view; toggle_selection_mode,
\* change_selection_mode, change_action_mode, end_movement,
\* toggle_widget_basis and the getters leave the four flags as they are.
C17_FlagFrame ==
    [][/\ (\E i \in 1..4 : ~DirtyFlags[i] /\ DirtyFlags'[i]) => event'[1] \in Raisers
       /\ (\E i \in 1..4 : DirtyFlags[i] /\ ~DirtyFlags'[i]) => Handles("update_view")
       /\ event'[1] \in Neutrals => DirtyFlags' = DirtyFlags]_vars

\* end_movement has run on a selection whose flag update_view had cleared,
\* while the instances are flagged
C17_Witness ==
    /\ Handled("end_movement") /\ selected # <<>>
    /\ ~selection_update /\ instance_update

\* the step is a release of the T key, which the controller turns into
\* toggle_selection_mode, or a direct call of it
TogglesMode ==
    \/ event'[1] = "KeyboardInput" /\ event'[2] = "T" /\ event'[3] = "Released"
    \/ Handles("toggle_selection_mode")

\* C18: toggle_selection_mode takes Nucleotide to Design, Design to Strand,
\* Strand to Helix and Helix to Nucleotide, so four toggles give the
\* starting mode back, and it leaves the selection, the candidate set,
\* selected_position, the widget basis and the rest of Data as they are.
C18_ToggleCycle ==
    [][/\ TogglesMode =>
            /\ selection_mode = "Nucleotide" => selection_mode' = "Design"
            /\ selection_mode = "Design" => selection_mode' = "Strand"
            /\ selection_mode = "Strand" => selection_mode' = "Helix"
            /\ selection_mode = "Helix" => selection_mode' = "Nucleotide"
            /\ UNCHANGED <<selected, candidates, selected_position, widget_basis>>
            /\ UNCHANGED <<designs, action_mode, DirtyFlags, panicked>>
       /\ toggle_selection_mode(toggle_selection_mode(toggle_selection_mode(
              toggle_selection_mode(selection_mode)))) = selection_mode]_vars

\* a toggle from Helix has brought the mode back to Nucleotide while an
\* element is selected, one is candidate and the basis is Object
C18_Witness ==
    /\ event[1] = "KeyboardInput" /\ event[2] = "T" /\ event[3] = "Released"
    /\ selection_mode = "Nucleotide"
    /\ selected = <<<<0, 1>>>> /\ candidates = <<<<0, 0>>>>
    /\ is_some(selected_position)
    /\ widget_basis = Some("Object")

\* C19: in every state in which the last call has returned,
\* selected_position is Some whenever the selection is non-empty, and it
\* is None after reset_selection and after clear_designs.
C19_SelectedPosition ==
    ~panicked =>
        /\ selected # <<>> => is_some(selected_position)
        /\ Handled("reset_selection") \/ Handled("clear_designs") =>
               selected_position = None /\ selected = <<>>

\* end_movement has recomputed the position of the selected element
C19_Witness ==
    /\ Handled("end_movement") /\ ~panicked
    /\ selected = <<<<0, 0>>>>
    /\ selected_position = Some(<<0, 0, 0>>)

\* C20: for every design, every element e of it and every granularity,
\* e is a member of get_group_member(design, get_group_identifier(design,
\* e)) evaluated under that granularity.
C20_GroupMembership ==
    \A d \in DOMAIN designs : \A e \in get_all_elements(designs[d]) :
        \A mode \in SelectionModes :
            LET D == [self EXCEPT !.selection_mode = mode] IN
            e \in get_group_member(D, d - 1, get_group_identifier(D, d - 1, e))

\* a design is loaded and, in Strand mode, the group of nucleotide 1 holds
\* it together with other elements
C20_Witness ==
    /\ designs # <<>> /\ selection_mode = "Strand"
    /\ LET group == get_group_member(self, 0, get_group_identifier(self, 0, 1))
       IN  1 \in group /\ Cardinality(group) > 1

\* the sequences that hold the references of `refs` in another order or
\* with repetitions
Rearrangements(refs) ==
    {q \in UNION {[1..n -> Range(refs)] : n \in 1..(Len(refs) + 1)} :
        Range(q) = Range(refs)}

\* C21: expand_selection and expand_candidate give the same set for every
\* rearrangement (permutation, duplication) of the references of the
\* selection; an evaluation changes no field of Data, and two evaluations
\* in a row give the same set.
C21_ExpansionPure ==
    [][\A g \in InstanceGetters : Handles(g[1]) =>
            LET refs == IF g[1] \in {"get_selected_spheres", "get_selected_tubes"}
                        THEN selected ELSE candidates
            IN  /\ UNCHANGED <<data_vars, selection_mode>>
                /\ consequence' =
                       <<"Instances",
                         IF g[1] \in {"get_selected_spheres", "get_selected_tubes"}
                         THEN expand_selection(self, g[2])
                         ELSE expand_candidate(self, g[2])>>
                /\ \A q \in Rearrangements(refs) :
                       expand(self, q, g[2]) = consequence'[2]
                /\ Handled(g[1]) => consequence' = consequence]_vars

\* the spheres of a selection of two nucleotides, given in decreasing
\* order, have been asked for
C21_Witness ==
    /\ Handled("get_selected_spheres")
    /\ selected = <<<<0, 1>>, <<0, 0>>>>
    /\ selection_mode = "Nucleotide"
    /\ consequence = <<"Instances", {<<0, 0>>, <<0, 1>>}>>

\* the selection is the one reference of a nucleotide of design d, in
\* Strand mode
StrandSelected(d) ==
    /\ selection_mode = "Strand"
    /\ Len(selected) = 1 /\ selected[1][1] = d
    /\ selected[1][2] \in StrandNucleotides

SENTINEL == 16777215

\* the ids a design draws in the picking pass: nucleotides, then bonds
DesignElements == Nucleotides \cup BoundIds

\* Design::new_with_path: nothing highlighted, everything to be drawn
Design_new == [selection |-> None, data_updated |-> TRUE, view_updated |-> TRUE]

\* Design::update_selection: the highlighted element changes and the design
\* reports a change of its data
Design_update_selection(design, arg) ==
    [design EXCEPT !.selection = arg, !.data_updated = TRUE]

\* Design::get_element_position
Design_get_element_position(design, id) ==
    IF id \in DesignElements THEN Some(<<"position", id>>) ELSE None

\* Design::selected_spheres and Design::selected_tubes
Design_selected(design, objects) ==
    IF design.selection = None THEN <<>>
    ELSE IF (design.selection[1] \in Nucleotides) = (objects = "spheres")
         THEN <<design.selection[1]>> ELSE <<>>

this == scene @@ [window_size |-> window_size, area_size |-> area_size,
                  updates |-> <<>>]

\* a call on a collaborator other than the view's update
call(S, fn, arg) == [S EXCEPT !.updates = Append(@, <<fn, arg>>)]

\* BufferDimensions::new: the row stride is the unpadded row rounded up to
\* the backend's copy alignment of 256 bytes
BufferDimensions_new(width, height) ==
    [width |-> width, height |-> height,
     unpadded_bytes_per_row |-> width * 4,
     padded_bytes_per_row |-> width * 4 + ((256 - ((width * 4) % 256)) % 256)]

Scene_add_design(S) == [S EXCEPT !.designs = Append(@, Design_new)]

Scene_clear_design(S) == [S EXCEPT !.designs = <<Design_new>>]

\* the dimensions from which set_selected_id builds the texture and the
\* staging buffer
pick_dimensions_area(S) == BufferDimensions_new(S.area[2][1], S.area[2][2])
pick_dimensions(S) == BufferDimensions_new(S.window_size[1], S.window_size[2])

\* the byte offset of the pixel read by set_selected_id
pixel_offset(S, clicked_pixel) ==
    (S.area[1][2] + clicked_pixel[2]) * pick_dimensions(S).padded_bytes_per_row
        + (S.area[1][1] + clicked_pixel[1]) * 4

\* the decoding of the four bytes at the offset: <<color, a>>
future_color_swapped(pixels) ==
    <<pixels[1] * 65536 + pixels[2] * 256 + pixels[3], pixels[4]>>
future_color(pixels) ==
    <<pixels[3] * 65536 + pixels[2] * 256 + pixels[1], pixels[4]>>

\* Scene::set_selected_id, up to the value it returns: the fake scene is
\* drawn, copied to the staging buffer, and four bytes are read from it
set_selected_id(S, clicked_pixel, pixels) ==
    LET size == pick_dimensions(S)
        buf_size == size.padded_bytes_per_row * size.height
        pixel == pixel_offset(S, clicked_pixel)
        T == call(call(S, "draw_fake", <<size.width, size.height>>),
                  "read", <<pixel, buf_size>>)
    IN  IF pixel + 3 >= buf_size THEN panic(T) ELSE T

\* Scene::click_on
click_on(S, clicked_pixel, pixels) ==
    LET T == set_selected_id(S, clicked_pixel, pixels)
        selected_id == future_color(pixels)[1]
        design_id == future_color(pixels)[2]
    IN  IF T.panicked THEN T
        ELSE IF selected_id # SENTINEL
        THEN [T EXCEPT !.selected_id = Some(selected_id),
                       !.selected_design = Some(design_id),
                       !.designs = [i \in DOMAIN T.designs |->
                           Design_update_selection(T.designs[i],
                               IF i - 1 = design_id THEN Some(selected_id)
                               ELSE None)]]
        ELSE [T EXCEPT !.selected_id = None, !.selected_design = None]

\* Scene::resize
Scene_resize(S, size) ==
    LET T == call(view_update(S, "Size", size), "controller.resize",
                  <<size, S.area[2]>>)
    IN  [T EXCEPT !.window_size = size, !.area_size = S.area[2],
                  !.update.camera_update = TRUE]

\* Scene::notify
Scene_notify_silent(S, notification) ==
    CASE notification[1] = "NewCamera" ->
            [call(S, "controller.teleport_camera", notification[2])
                EXCEPT !.update.camera_update = TRUE]
      [] notification[1] = "CameraMoved" ->
            [S EXCEPT !.update.camera_update = TRUE]
      [] notification[1] = "NewSize" ->
            Scene_resize([S EXCEPT !.area = notification[3]], notification[2])
Scene_notify(S, notification) ==
    [Scene_notify_silent(S, notification) EXCEPT !.update.need_update = TRUE]

\* the instances pushed one design after the other
RECURSIVE Flatten(_)
Flatten(vecs) ==
    IF vecs = <<>> THEN <<>> ELSE Head(vecs) \o Flatten(Tail(vecs))

\* Scene::fetch_data_updates; data_was_updated lowers the design's flag
fetch_data_updates(S) ==
    LET need_update == \E i \in DOMAIN S.designs : S.designs[i].data_updated
        selected_instances(objects) ==
            Flatten([i \in DOMAIN S.designs |->
                        Design_selected(S.designs[i], objects)])
        T == [S EXCEPT !.designs = [i \in DOMAIN S.designs |->
                            [S.designs[i] EXCEPT !.data_updated = FALSE]]]
        U == IF need_update
             THEN [T EXCEPT
                    !.update.sphere_instances = Some(<<"spheres", Len(S.designs)>>),
                    !.update.tube_instances = Some(<<"tubes", Len(S.designs)>>),
                    !.update.selected_tube =
                        IF Len(selected_instances("tubes")) > 0
                        THEN Some(selected_instances("tubes")) ELSE None,
                    !.update.selected_sphere =
                        IF Len(selected_instances("spheres")) > 0
                        THEN Some(selected_instances("spheres")[1]) ELSE None]
             ELSE T
    IN  [U EXCEPT !.update.need_update = @ \/ need_update]

\* Scene::fetch_view_updates; view_was_updated lowers the design's flag
fetch_view_updates(S) ==
    LET need_update == \E i \in DOMAIN S.designs : S.designs[i].view_updated
        T == [S EXCEPT !.designs = [i \in DOMAIN S.designs |->
                            [S.designs[i] EXCEPT !.view_updated = FALSE]]]
        U == IF need_update
             THEN [T EXCEPT !.update.model_matrices =
                                Some(<<"matrices", Len(S.designs)>>)]
             ELSE T
    IN  [U EXCEPT !.update.need_update = @ \/ need_update]

\* if let Some(x) = self.update.slot.take() { view.update(kind(x)) }
take(S, slot, kind) ==
    IF S.update[slot] = None THEN S
    ELSE view_update([S EXCEPT !.update[slot] = None], kind, S.update[slot][1])

\* Scene::perform_update
perform_update_keep_camera(S) ==
    LET A == take(S, "sphere_instances", "Spheres")
        B == take(A, "tube_instances", "Tubes")
        C == IF B.update.selected_sphere = None THEN B
             ELSE view_update([B EXCEPT !.update.selected_sphere = None],
                              "SelectedSpheres", <<B.update.selected_sphere[1]>>)
        D == take(C, "selected_tube", "SelectedTubes")
        E == take(D, "model_matrices", "ModelMatricies")
    IN  [E EXCEPT !.update.need_update = FALSE]
perform_update(S) ==
    LET A == take(S, "sphere_instances", "Spheres")
        B == take(A, "tube_instances", "Tubes")
        C == IF B.update.selected_sphere = None THEN B
             ELSE view_update([B EXCEPT !.update.selected_sphere = None],
                              "SelectedSpheres", <<B.update.selected_sphere[1]>>)
        D == take(C, "selected_tube", "SelectedTubes")
        E == take(D, "model_matrices", "ModelMatricies")
        F == IF E.update.camera_update
             THEN [view_update(call(E, "controller.update_camera", "dt"),
                               "Camera", Unit)
                      EXCEPT !.update.camera_update = FALSE]
             ELSE E
    IN  [F EXCEPT !.update.need_update = FALSE]

\* Scene::draw_view
draw_view(S, camera_is_moving) ==
    LET A == IF camera_is_moving THEN Scene_notify(S, CameraMoved) ELSE S
        B == fetch_view_updates(fetch_data_updates(A))
        C == IF B.update.need_update THEN perform_update(B) ELSE B
    IN  call(C, "view.draw", C.area)

\* Scene::get_selected_position, and whether it panics
get_selected_position_panics(S) ==
    /\ S.selected_design # None
    /\ ~in_bounds(S, S.selected_design[1]) \/ S.selected_id = None
get_selected_position(S) ==
    IF S.selected_design # None
    THEN Design_get_element_position(S.designs[S.selected_design[1] + 1],
                                     S.selected_id[1])
    ELSE None

\* Scene::translate_selected_design and the Rotation arm of Scene::input:
\* the selected design moves and reports a change of its view
move_selected_design(S) ==
    IF get_selected_position_panics(S) THEN panic(S)
    ELSE IF get_selected_position(S) = None THEN panic(S)
    ELSE [S EXCEPT !.designs[S.selected_design[1] + 1].view_updated = TRUE]

\* the Swing arm of Scene::input
swing(S) ==
    IF S.selected_id = None THEN S
    ELSE IF S.selected_design = None THEN panic(S)
    ELSE IF ~in_bounds(S, S.selected_design[1]) THEN panic(S)
    ELSE IF Design_get_element_position(S.designs[S.selected_design[1] + 1],
                                        S.selected_id[1]) = None THEN panic(S)
    ELSE Scene_notify(call(call(S, "controller.set_pivot_point", S.selected_id[1]),
                           "controller.swing", Unit), CameraMoved)

\* Scene::input, given the Consequence returned by the controller and the
\* bytes the picking pass leaves at the clicked pixel
Scene_input(S, cons, pixels) ==
    CASE cons[1] = "Nothing" -> S
      [] cons[1] = "CameraMoved" -> Scene_notify(S, CameraMoved)
      [] cons[1] = "PixelSelected" -> click_on(S, cons[2], pixels)
      [] cons[1] = "Translation" -> move_selected_design(S)
      [] cons[1] = "MovementEnded" ->      \* every design updates its positions
            [S EXCEPT !.designs = [i \in DOMAIN S.designs |->
                            [S.designs[i] EXCEPT !.data_updated = TRUE]]]
      [] cons[1] = "Rotation" -> move_selected_design(S)
      [] cons[1] = "Swing" -> swing(S)

(***************************************************************************)
(* Calls on the Scene.                                                     *)
(***************************************************************************)
SceneCall(ev, S) ==
    /\ ~scene.panicked
    /\ Record(ev)
    /\ scene' = [f \in DOMAIN scene |-> S[f]]
    /\ window_size' = S.window_size
    /\ area_size' = S.area_size
    /\ Return(Unit, S.updates)
    /\ UNCHANGED <<state, last_left_clicked_position, last_right_clicked_position,
                   mouse_position, current_modifiers, modifiers_when_clicked,
                   selection_mode, data_vars, window_state, dynamic_buffer, pending, camera_left, pushed>>

\* the positions of the draw area in the window
AreaPositions == {<<0, 0>>, <<4, 2>>}
SceneNotifications ==
    {CameraMoved, <<"NewCamera", "camera">>}
        \cup {<<"NewSize", l[1], <<p, l[2]>>>> : l \in Layouts, p \in AreaPositions}

\* the Consequences the controller of this Scene returns
ClickedPixels == Positions \cup {<<0, MaxCoord>>}
SceneConsequences ==
    {Nothing, CameraMoved, MovementEnded, <<"Translation">>, <<"Rotation">>,
     <<"Swing">>} \cup {PixelSelected(p) : p \in ClickedPixels}

\* what the picking pass can leave at a pixel: the background, cleared to the
\* sentinel colour, or the id of an element and the index of its design
PickedPixels ==
    {<<255, 255, 255, a>> : a \in {0, 255}}
        \cup {<<id, 0, 0, d - 1>> : id \in {0, NumNucl}, d \in DOMAIN scene.designs}

\* the calls on the Scene: add_design, clear_design, input, notify and
\* draw_view, and a design that is edited and reports a change of its data
\* or of its view
NextScene ==
    \/ /\ Len(scene.designs) < MaxDesigns
       /\ SceneCall(Ev("Scene::add_design", "none", "none"), Scene_add_design(this))
    \/ SceneCall(Ev("Scene::clear_design", "none", "none"), Scene_clear_design(this))
    \/ \E cons \in SceneConsequences, pixels \in PickedPixels :
            SceneCall(Ev("Scene::input", cons,
                         IF cons[1] = "PixelSelected" THEN pixels ELSE "none"),
                      Scene_input(this, cons, pixels))
    \/ \E notification \in SceneNotifications :
            SceneCall(Ev("Scene::notify", notification, "none"),
                      Scene_notify(this, notification))
    \/ \E camera_is_moving \in BOOLEAN :
            SceneCall(Ev("Scene::draw_view", camera_is_moving, "none"),
                      draw_view(this, camera_is_moving))
    \/ \E i \in DOMAIN scene.designs, flag \in {"data_updated", "view_updated"} :
            /\ ~scene.designs[i][flag]
            /\ SceneCall(Ev("Design::report", i, flag),
                         [this EXCEPT !.designs[i][flag] = TRUE])

SpecScene == InitData /\ [][NextScene]_vars

(***************************************************************************)
(* Properties of the orchestrating Scene.                                  *)
(***************************************************************************)
\* the call handled by the step is a click of Scene::input that read `pixels`
\* and did not panic
Clicks(pixels) ==
    /\ Handles("Scene::input")
    /\ event'[2][1] = "PixelSelected"
    /\ event'[3] = pixels
    /\ ~scene'.panicked

\* C23: a click whose pick decodes to the sentinel id 0xFFFFFF, with any
\* alpha value, leaves nothing selected in the scene and no element
\* highlighted in any design
C23_SentinelClears ==
    [][\A pixels \in PickedPixels :
        Clicks(pixels) /\ future_color(pixels)[1] = SENTINEL
            => /\ scene'.selected_id = None
               /\ scene'.selected_design = None
               /\ \A i \in DOMAIN scene'.designs :
                        scene'.designs[i].selection = None]_vars

\* the byte values on which the decoding is evaluated besides the picked ones
ByteSamples == {0, 1, 255}

\* C24: the pick decode of the 4 bytes at the offset is
\* id = byte[2]*65536 + byte[1]*256 + byte[0] and design index = byte[3]: the
\* id lies in 0..2^24-1 and is 0xFFFFFF exactly when the three colour bytes
\* are 0xFF, the design index lies in 0..255 and does not depend on the
\* colour bytes (it is the same for every colour read with the same fourth
\* byte); a click that selects stores exactly this pair
C24_PickDecode ==
    [][\A pixels \in PickedPixels :
        Clicks(pixels)
            => /\ \A b0, b1, b2 \in ByteSamples :
                    LET picked == future_color(<<b0, b1, b2, pixels[4]>>)
                    IN  /\ picked[1] = b2 * 65536 + b1 * 256 + b0
                        /\ picked[1] \in 0 .. 16777215
                        /\ (picked[1] = SENTINEL)
                                = (b0 = 255 /\ b1 = 255 /\ b2 = 255)
                        /\ picked[2] = pixels[4]
                        /\ picked[2] \in 0 .. 255
               /\ LET id == pixels[3] * 65536 + pixels[2] * 256 + pixels[1]
                  IN  IF id = SENTINEL
                      THEN scene'.selected_id = None
                      ELSE /\ scene'.selected_id = Some(id)
                           /\ scene'.selected_design = Some(pixels[4])]_vars

\* a click selected an element whose id is not 0 and whose design index is
\* not the id
C24_Witness ==
    /\ Handled("Scene::input")
    /\ event[2][1] = "PixelSelected"
    /\ ~scene.panicked
    /\ scene.selected_id = Some(NumNucl)
    /\ scene.selected_design = Some(0)

\* the clicked pixel lies in the draw area, and the draw area in the window
InsideWindow(clicked_pixel, area, size) ==
    /\ clicked_pixel[1] < area[2][1] /\ clicked_pixel[2] < area[2][2]
    /\ area[1][1] + area[2][1] <= size[1]
    /\ area[1][2] + area[2][2] <= size[2]

\* C25: each pick builds its offscreen target and its staging buffer from
\* the window size stored by the most recent resize, and reads the pixel at
\* (area.y + click.y) * padded_bytes_per_row + (area.x + click.x) * 4; when
\* the click is inside a draw area inside the window, the four bytes read lie
\* within the padded_bytes_per_row * height bytes of the staging buffer
C25_PickGeometry ==
    [][Handles("Scene::input") /\ event'[2][1] = "PixelSelected"
        => LET clicked_pixel == event'[2][2]
               padded == BufferDimensions_new(window_size[1], window_size[2])
                            .padded_bytes_per_row
               pixel == (scene.area[1][2] + clicked_pixel[2]) * padded
                            + (scene.area[1][1] + clicked_pixel[1]) * 4
           IN  /\ calls'[1] = <<"draw_fake", window_size>>
               /\ calls'[2] = <<"read", <<pixel, padded * window_size[2]>>>>
               /\ InsideWindow(clicked_pixel, scene.area, window_size)
                    => /\ pixel + 3 < padded * window_size[2]
                       /\ ~scene'.panicked]_vars

\* a click on the last row of a draw area that ends at the bottom right
\* corner of the window, after a resize to a window larger than the area
C25_Witness ==
    /\ Handled("Scene::input")
    /\ event[2] = PixelSelected(<<0, MaxCoord>>)
    /\ window_size = <<12, 8>>
    /\ scene.area = <<<<4, 2>>, <<8, 6>>>>
    /\ calls[2][1] = "read"
    /\ ~scene.panicked

\* how many times the call handled last gave the view an update of `kind`
Handed(kind, cs) ==
    Cardinality({i \in DOMAIN cs : cs[i][1] = "view.update" /\ cs[i][2] = kind})

\* the pending slots of the SceneUpdate
Slots == {"tube_instances", "sphere_instances", "fake_tube_instances",
          "fake_sphere_instances", "selected_tube", "selected_sphere",
          "model_matrices"}

\* the call handled by the step went through Scene::notify
Notifies ==
    \/ Handles("Scene::notify")
    \/ Handles("Scene::input") /\ event'[2][1] \in {"CameraMoved", "Swing"}

\* C26: camera_update and need_update are raised only by notify (or, within
\* draw_view, by a design reporting a change); after every draw_view both are
\* false, no slot is pending, and each instance, selection and matrix update
\* due was handed to the view exactly once; camera_update is lowered only
\* after update_camera and the view's camera update were issued
C26_UpdateFlags ==
    [][/\ ~scene.update.need_update /\ scene'.update.need_update => Notifies
       /\ ~scene.update.camera_update /\ scene'.update.camera_update => Notifies
       /\ \A slot \in Slots : scene'.update[slot] = None
       /\ scene.update.camera_update /\ ~scene'.update.camera_update
            => \E i \in DOMAIN calls' :
                    /\ i + 1 \in DOMAIN calls'
                    /\ calls'[i][1] = "controller.update_camera"
                    /\ calls'[i + 1][1] = "view.update"
                    /\ calls'[i + 1][2] = "Camera"
       /\ Handles("Scene::draw_view")
            => LET data == \E i \in DOMAIN scene.designs :
                                scene.designs[i].data_updated
                   view == \E i \in DOMAIN scene.designs :
                                scene.designs[i].view_updated
                   highlighted(objects) ==
                        \E i \in DOMAIN scene.designs :
                            Design_selected(scene.designs[i], objects) # <<>>
                   due(b) == IF b THEN 1 ELSE 0
               IN  /\ ~scene'.update.need_update
                   /\ ~scene'.update.camera_update
                   /\ Handed("Spheres", calls') = due(data)
                   /\ Handed("Tubes", calls') = due(data)
                   /\ Handed("SelectedSpheres", calls')
                        = due(data /\ highlighted("spheres"))
                   /\ Handed("SelectedTubes", calls')
                        = due(data /\ highlighted("tubes"))
                   /\ Handed("ModelMatricies", calls') = due(view)
                   /\ Handed("Camera", calls')
                        = due(scene.update.camera_update \/ event'[2])]_vars

\* a draw_view that handed the view the instances, a selected sphere, the
\* matrices and the camera
C26_Witness ==
    /\ Handled("Scene::draw_view")
    /\ Handed("Spheres", calls) = 1
    /\ Handed("SelectedSpheres", calls) = 1
    /\ Handed("ModelMatricies", calls) = 1
    /\ Handed("Camera", calls) = 1
    /\ ~scene.update.need_update /\ ~scene.update.camera_update

(***************************************************************************)
(* The window controller (src/controller.rs).  A state is a tuple whose    *)
(* first component names its type.  The pending dialog of a                *)
(* TransitionMessage is None before the dialog is opened, then Some(b)     *)
(* with b = was_ack(); the pending question of a YesNo is None, then       *)
(* Some(answer()) with answer() an Option<bool>.  NormalState is not part  *)
(* of the sources: its make_progress may stay or move to any new dialog    *)
(* state.                                                                  *)
(***************************************************************************)
MessageLevels == {"Warning", "Info", "Error"}

\* the states a dialog state may move to, and the states
\* NormalState::make_progress may build
Targets ==
    {NormalState} \cup {TransitionMessage_new(level, NormalState) : level \in MessageLevels}
DialogStates ==
    {TransitionMessage_new(level, to) :
        level \in MessageLevels,
        to \in Targets \cup {YesNo_new(NormalState, YesNo_new(NormalState, NormalState))}}
        \cup {YesNo_new(yes, no) : yes \in Targets, no \in Targets}

\* the dialog opened by State::make_progress, if any
make_progress_calls(st) ==
    CASE st[1] = "TransitionMessage" /\ st[3] = None ->
            <<<<"dialog::blocking_message", st[2]>>>>
      [] st[1] = "YesNo" /\ st[2] = None -> <<<<"dialog::yes_no_dialog", Unit>>>>
      [] OTHER -> <<>>

\* State::make_progress of TransitionMessage
TransitionMessage_make_progress_eager(st) ==
    IF st[3] # None
    THEN st[4]
    ELSE <<st[1], st[2], Some(FALSE), st[4]>>
TransitionMessage_make_progress(st) ==
    IF st[3] # None
    THEN IF st[3][1] THEN st[4] ELSE st
    ELSE <<st[1], st[2], Some(FALSE), st[4]>>

\* State::make_progress of YesNo
YesNo_make_progress_yes(st) ==
    IF st[2] # None
    THEN IF st[2][1] # None THEN st[3] ELSE st
    ELSE <<st[1], Some(None), st[3], st[4]>>
YesNo_make_progress(st) ==
    IF st[2] # None
    THEN IF st[2][1] # None
         THEN IF st[2][1][1] THEN st[3] ELSE st[4]
         ELSE st
    ELSE <<st[1], Some(None), st[3], st[4]>>

\* Controller::make_progress that leaves the placeholder in place when a
\* dialog state returns itself
Controller_make_progress_placeholder(next) ==
    /\ Record(Ev("Controller::make_progress", "none", "none"))
    /\ CASE window_state[1] = "OhNo" ->
                /\ window_state' = OhNo
                /\ Return(<<"panic">>, <<>>)
         [] window_state[1] = "NormalState" ->
                /\ window_state' = next
                /\ Return(Unit, <<>>)
         [] window_state[1] = "TransitionMessage" ->
                /\ window_state' =
                       IF TransitionMessage_make_progress(window_state) = window_state
                       THEN OhNo ELSE TransitionMessage_make_progress(window_state)
                /\ Return(Unit, make_progress_calls(window_state))
         [] window_state[1] = "YesNo" ->
                /\ window_state' =
                       IF YesNo_make_progress(window_state) = window_state
                       THEN OhNo ELSE YesNo_make_progress(window_state)
                /\ Return(Unit, make_progress_calls(window_state))
    /\ UNCHANGED <<ctrl_vars, selection_mode, data_vars, scene, dynamic_buffer, pending, camera_left, pushed>>

\* Controller::make_progress: the state is replaced by what its
\* make_progress returns; the placeholder OhNo panics and stays
Controller_make_progress(next) ==
    /\ Record(Ev("Controller::make_progress", "none", "none"))
    /\ CASE window_state[1] = "OhNo" ->
                /\ window_state' = OhNo
                /\ Return(<<"panic">>, <<>>)
         [] window_state[1] = "NormalState" ->
                /\ window_state' = next
                /\ Return(Unit, <<>>)
         [] window_state[1] = "TransitionMessage" ->
                /\ window_state' = TransitionMessage_make_progress(window_state)
                /\ Return(Unit, make_progress_calls(window_state))
         [] window_state[1] = "YesNo" ->
                /\ window_state' = YesNo_make_progress(window_state)
                /\ Return(Unit, make_progress_calls(window_state))
    /\ UNCHANGED <<ctrl_vars, selection_mode, data_vars, scene, dynamic_buffer, pending, camera_left, pushed>>

\* the user acknowledges the message of the open dialog
MustAckMessage_ack ==
    /\ window_state[1] = "TransitionMessage"
    /\ window_state[3] = Some(FALSE)
    /\ window_state' = [window_state EXCEPT ![3] = Some(TRUE)]
    /\ Record(Ev("MustAckMessage::ack", "none", "none"))
    /\ Return(Unit, <<>>)
    /\ UNCHANGED <<ctrl_vars, selection_mode, data_vars, scene, dynamic_buffer, pending, camera_left, pushed>>

\* the user answers the open question
YesNoQuestion_answer(b) ==
    /\ window_state[1] = "YesNo"
    /\ window_state[2] = Some(None)
    /\ window_state' = [window_state EXCEPT ![2] = Some(Some(b))]
    /\ Record(Ev("YesNoQuestion::answer", b, "none"))
    /\ Return(Unit, <<>>)
    /\ UNCHANGED <<ctrl_vars, selection_mode, data_vars, scene, dynamic_buffer, pending, camera_left, pushed>>

NextWindow ==
    \/ \E next \in DialogStates \cup {NormalState} : Controller_make_progress(next)
    \/ MustAckMessage_ack
    \/ \E b \in BOOLEAN : YesNoQuestion_answer(b)

SpecWindow == InitData /\ [][NextWindow]_vars

(***************************************************************************)
(* Properties of the window controller.                                    *)
(***************************************************************************)
\* how many dialogs `fn` the call handled by the step opened
Opened(fn) == Cardinality({i \in DOMAIN calls' : calls'[i][1] = fn})

\* C27: a TransitionMessage opens its blocking message dialog on its first
\* make_progress and never again, stays the same TransitionMessage on every
\* later make_progress while the message is not acknowledged, and moves to
\* its predetermined target on the first make_progress after the
\* acknowledgement; no step takes it to any other state
C27_TransitionMessage ==
    [][window_state[1] = "TransitionMessage"
        => LET st == window_state
           IN  IF Handles("Controller::make_progress")
               THEN CASE st[3] = None ->
                            /\ Opened("dialog::blocking_message") = 1
                            /\ calls'[1][2] = st[2]
                            /\ window_state' = <<st[1], st[2], Some(FALSE), st[4]>>
                      [] st[3] = Some(FALSE) ->
                            /\ Opened("dialog::blocking_message") = 0
                            /\ window_state' = st
                      [] st[3] = Some(TRUE) ->
                            /\ Opened("dialog::blocking_message") = 0
                            /\ window_state' = st[4]
               ELSE /\ Opened("dialog::blocking_message") = 0
                    /\ st[3] # None
                    /\ window_state' = <<st[1], st[2], Some(TRUE), st[4]>>]_vars

\* a make_progress moved an acknowledged message to the question it
\* precedes (no other state moves to this question)
C27_Witness ==
    /\ Handled("Controller::make_progress")
    /\ window_state = YesNo_new(NormalState, YesNo_new(NormalState, NormalState))

\* C28: a YesNo opens its yes/no dialog on its first make_progress and never
\* again, stays the same YesNo on every make_progress while no answer is
\* available, and on the first make_progress after an answer moves to its
\* yes state if the answer is true and to its no state if it is false
C28_YesNo ==
    [][window_state[1] = "YesNo"
        => LET st == window_state
           IN  IF Handles("Controller::make_progress")
               THEN CASE st[2] = None ->
                            /\ Opened("dialog::yes_no_dialog") = 1
                            /\ window_state' = <<st[1], Some(None), st[3], st[4]>>
                      [] st[2] = Some(None) ->
                            /\ Opened("dialog::yes_no_dialog") = 0
                            /\ window_state' = st
                      [] st[2] = Some(Some(TRUE)) ->
                            /\ Opened("dialog::yes_no_dialog") = 0
                            /\ window_state' = st[3]
                      [] st[2] = Some(Some(FALSE)) ->
                            /\ Opened("dialog::yes_no_dialog") = 0
                            /\ window_state' = st[4]
               ELSE /\ Opened("dialog::yes_no_dialog") = 0
                    /\ st[2] = Some(None)
                    /\ window_state'[1] = "YesNo"
                    /\ window_state'[2] \in {Some(Some(TRUE)), Some(Some(FALSE))}
                    /\ window_state'[3] = st[3] /\ window_state'[4] = st[4]]_vars

\* a question whose yes and no states differ has been answered no and waits
\* for the next make_progress
C28_Witness ==
    /\ window_state[1] = "YesNo"
    /\ window_state[2] = Some(Some(FALSE))
    /\ window_state[3] # window_state[4]

(***************************************************************************)
(* DynamicBuffer (flatscene/view/helix_view.rs).  The GPU buffer is the    *)
(* sequence of its bytes; -1 is a byte that was never written.             *)
(***************************************************************************)
\* bytemuck::cast_slice(data): the bytes of the data given to update
DataBytes == UNION {[1 .. n -> {0, 1}] : n \in 0 .. MaxBytes}

\* device.create_buffer with the given size
create_buffer(size) == [i \in 1 .. size |-> -1]

\* queue.write_buffer(&buffer, 0, bytes)
write_buffer(buffer, bytes) ==
    [i \in 1 .. Len(buffer) |-> IF i <= Len(bytes) THEN bytes[i] ELSE buffer[i]]

\* DynamicBuffer::update
DynamicBuffer_update_stale(B, bytes) ==
    LET C == IF B.capacity < Len(bytes)
             THEN [buffer |-> create_buffer(2 * Len(bytes)),
                   capacity |-> 2 * Len(bytes), length |-> Len(bytes)]
             ELSE B
    IN  [C EXCEPT !.buffer = write_buffer(@, bytes)]
DynamicBuffer_update(B, bytes) ==
    LET C == IF B.capacity < Len(bytes)
             THEN [buffer |-> create_buffer(2 * Len(bytes)),
                   capacity |-> 2 * Len(bytes), length |-> Len(bytes)]
             ELSE IF B.length # Len(bytes)
             THEN [B EXCEPT !.length = Len(bytes)]
             ELSE B
    IN  [C EXCEPT !.buffer = write_buffer(@, bytes)]

\* DynamicBuffer::get_slice
get_slice(B) == SubSeq(B.buffer, 1, B.length)

BufferCall(ev, B, ret, cs) ==
    /\ Record(ev)
    /\ dynamic_buffer' = B
    /\ Return(ret, cs)
    /\ UNCHANGED <<ctrl_vars, selection_mode, data_vars, scene, window_state, pending, camera_left, pushed>>

NextBuffer ==
    \/ \E bytes \in DataBytes :
        BufferCall(Ev("DynamicBuffer::update", bytes, "none"),
                   DynamicBuffer_update(dynamic_buffer, bytes), Unit,
                   IF dynamic_buffer.capacity < Len(bytes)
                   THEN <<<<"create_buffer", 2 * Len(bytes)>>, <<"write_buffer", bytes>>>>
                   ELSE <<<<"write_buffer", bytes>>>>)
    \/ BufferCall(Ev("DynamicBuffer::get_slice", "none", "none"), dynamic_buffer,
                  <<"BufferSlice", get_slice(dynamic_buffer)>>, <<>>)

SpecBuffer == InitData /\ [][NextBuffer]_vars

\* C29: after any sequence of updates, get_slice covers exactly the bytes of
\* the data given to the last update, length <= capacity holds, capacity never
\* decreases, and the GPU buffer is reallocated, to twice the size of the
\* data, only when the data is larger than the current capacity
C29_DynamicBuffer ==
    [][/\ dynamic_buffer'.length <= dynamic_buffer'.capacity
       /\ dynamic_buffer'.capacity = Len(dynamic_buffer'.buffer)
       /\ dynamic_buffer'.capacity >= dynamic_buffer.capacity
       /\ Handles("DynamicBuffer::update")
            => /\ get_slice(dynamic_buffer') = event'[2]
               /\ dynamic_buffer'.length = Len(event'[2])
               /\ Called("create_buffer")' = (Len(event'[2]) > dynamic_buffer.capacity)
               /\ Called("create_buffer")'
                    => /\ calls'[1][2] = 2 * Len(event'[2])
                       /\ dynamic_buffer'.capacity = 2 * Len(event'[2])
               /\ ~Called("create_buffer")'
                    => dynamic_buffer'.capacity = dynamic_buffer.capacity
       /\ Handles("DynamicBuffer::get_slice")
            => /\ dynamic_buffer' = dynamic_buffer
               /\ consequence'[2] = get_slice(dynamic_buffer)
               /\ Handled("DynamicBuffer::update") => consequence'[2] = event[2]]_vars

\* get_slice after an update with data shorter than the data before it,
\* written without a reallocation
C29_Witness ==
    /\ Handled("DynamicBuffer::get_slice")
    /\ Len(consequence[2]) = 1
    /\ dynamic_buffer.capacity = 2 * MaxBytes
    /\ dynamic_buffer.buffer[2] # -1

(***************************************************************************)
(* Movements of the input controller.                                      *)
(***************************************************************************)
\* C30: after a left press that reported InitTranslation or InitRotation,
\* the next left release reports MovementEnded, whatever notify calls,
\* cursor moves and other events are handled between the two
C30_ReleaseEndsMovement ==
    [][pending /\ event' = LeftReleased => consequence' = MovementEnded]_vars

\* the left button events with the camera sub-controller's view of the
\* button, under notify calls, right button events and cursor events
NextClicks ==
    \/ \E st \in ElementStates, offer \in {None} \cup {Some(b) : b \in Builders} :
          /\ MouseInputLeft(st, offer)
          /\ camera_left' = IF ~Called("process_click")' THEN camera_left
                            ELSE IF st = "Pressed" THEN "pressed"
                            ELSE IF camera_left = "never" THEN "never"
                            ELSE "released"
    \/ \E st \in ElementStates : MouseInputRight(st)
    \/ \E e \in OptSceneElements : Notify(e)
    \/ \E p \in Positions : CursorMoved(p)
    \/ CursorLeft

SpecClicks == Init /\ [][NextClicks]_vars

\* C31: the camera sub-controller sees balanced left-button events: at a
\* left release, a press forwarded to process_click and not yet released is
\* released, whatever notify calls came in between, and a release is never
\* forwarded before a press was
C31_BalancedClicks ==
    [][event' = LeftReleased
        => /\ camera_left = "pressed" => Called("process_click")'
           /\ Called("process_click")' => camera_left # "never"]_vars

(***************************************************************************)
(* SpecPushed: the selection and candidate calls on Data, with the         *)
(* instances that update_view gave the view last.                          *)
(***************************************************************************)
\* what the view holds after the updates `cs`
PushedAfter(cs) ==
    [kind \in DOMAIN pushed |->
        IF \E i \in DOMAIN cs : cs[i][1] = "view.update" /\ cs[i][2] = kind
        THEN cs[CHOOSE i \in DOMAIN cs :
                    cs[i][1] = "view.update" /\ cs[i][2] = kind][3]
        ELSE pushed[kind]]

NextPushed ==
    \/ \E design \in Design3Ds : Data_add_design(design)
    \/ Data_clear_designs
    \/ \E r \in FlagRefs : Data_set_selection(r[1], r[2])
    \/ Data_reset_selection
    \/ \E r \in FlagRefs : Data_set_candidate(r[1], r[2])
    \/ Data_reset_candidate
    \/ Data_toggle_selection_mode
    \/ \E mode \in SelectionModes : Data_change_selection_mode(mode)
    \/ /\ ~panicked
       /\ Record(Ev("update_view", "none", "none"))
       /\ Store(update_view(self))
       /\ Return(Unit, update_view(self).updates)
       /\ pushed' = PushedAfter(update_view(self).updates)
       /\ UNCHANGED <<ctrl_vars, scene, window_state, dynamic_buffer, pending,
                      camera_left>>

SpecPushed == InitData /\ [][NextPushed]_vars

\* C32: whenever the four dirty flags are false, the selected and candidate
\* instances last given to the view are expand_selection and
\* expand_candidate of the current selection, candidates and selection mode
C32_ViewInSync ==
    ~panicked /\ ~selection_update /\ ~candidate_update
        /\ ~instance_update /\ ~matrices_update
        /\ ~expand_panics(self, selected) /\ ~expand_panics(self, candidates)
    => /\ pushed.SelectedTubes = expand_selection(self, "Bound")
       /\ pushed.SelectedSpheres = expand_selection(self, "Nucleotide")
       /\ pushed.CandidateTubes = expand_candidate(self, "Bound")
       /\ pushed.CandidateSpheres = expand_candidate(self, "Nucleotide")

\* whether Data::get_widget_basis panics: no widget basis, or the Object
\* basis of a selection that is empty or of a missing design
get_widget_basis_panics(D) ==
    \/ D.widget_basis = None
    \/ /\ D.widget_basis = Some("Object")
       /\ \/ D.selected = <<>>
          \/ ~in_bounds(D, D.selected[1][1])

\* C33: in every state reached through set_selection, reset_selection,
\* clear_designs and toggle_widget_basis, a widget basis of Object implies a
\* non-empty selection, so that get_widget_basis does not panic once a
\* widget basis exists
C33_ObjectBasisHasSelection ==
    ~panicked
    => /\ widget_basis = Some("Object") => selected # <<>>
       /\ widget_basis # None => ~get_widget_basis_panics(self)

\* the Scene with several designs, under add_design, clear_design, clicks
\* and the movements of the selected design
NextSceneDesigns ==
    \/ /\ Len(scene.designs) < MaxSceneDesigns
       /\ SceneCall(Ev("Scene::add_design", "none", "none"), Scene_add_design(this))
    \/ SceneCall(Ev("Scene::clear_design", "none", "none"), Scene_clear_design(this))
    \/ \E pixels \in PickedPixels :
            SceneCall(Ev("Scene::input", PixelSelected(<<0, 0>>), pixels),
                      Scene_input(this, PixelSelected(<<0, 0>>), pixels))
    \/ \E cons \in {<<"Translation">>, <<"Rotation">>, <<"Swing">>} :
            SceneCall(Ev("Scene::input", cons, "none"),
                      Scene_input(this, cons, <<0, 0, 0, 0>>))

SpecSceneDesigns == InitData /\ [][NextSceneDesigns]_vars

\* C34: in the Scene, after any sequence of add_design, clear_design and
\* clicks, selected_id is Some exactly when selected_design is Some, and
\* selected_design, when Some, is an index of the design list, so the Swing,
\* Rotation and Translation handlers never index a missing design
C34_SelectedDesignValid ==
    /\ (scene.selected_id # None) = (scene.selected_design # None)
    /\ scene.selected_design # None => in_bounds(scene, scene.selected_design[1])
    /\ Handled("Scene::input") /\ event[2][1] \in {"Swing", "Rotation"}
            /\ scene.selected_design # None
        => ~scene.panicked

\* C35: a left release handled while no left click origin is recorded never
\* reports PixelSelected: where it goes through left_click_camera (the
\* camera sub-controller is told of it) it reports Nothing.  PixelSelected
\* is reported only by a left release, with the origin that is recorded at
\* that time, and an origin is only ever recorded by a left press, as the
\* cursor position of that press.
C35_ReleaseWithoutOrigin ==
    [][/\ event' = LeftReleased /\ last_left_clicked_position = None
          => /\ consequence'[1] # "PixelSelected"
             /\ Called("process_click")' => consequence' = Nothing
       /\ consequence'[1] = "PixelSelected"
          => /\ event' = LeftReleased
             /\ last_left_clicked_position = Some(consequence'[2])
       /\ last_left_clicked_position' # None
              /\ last_left_clicked_position' # last_left_clicked_position
          => /\ event' = LeftPressed
             /\ last_left_clicked_position' = Some(mouse_position)]_vars

\* a left release went through left_click_camera and found no origin
C35_Witness ==
    /\ event = LeftReleased
    /\ Called("process_click")
    /\ consequence = Nothing

\* C36: a right release always leaves the input controller in MoveCamera,
\* whatever the state was (Translate, Rotate, TogglingWidget and Building
\* included; the strand builder held by Building is gone with the state),
\* and leaves no right click origin; a right press never changes the state.
C36_RightReleaseResets ==
    [][/\ event' = RightReleased
          => /\ state' = MoveCamera
             /\ last_right_clicked_position' = None
       /\ event' = Ev("MouseInput", "Right", "Pressed") => state' = state]_vars

\* a right release arrived while a translation or rotation begun by a left
\* press was still open, and the controller is in MoveCamera
C36_Witness ==
    /\ event = RightReleased
    /\ pending
    /\ state = MoveCamera
    /\ last_right_clicked_position = None

\* C37: a CursorLeft event ends at most one drag.  With a left origin
\* recorded it reports MovementEnded and clears the left origin only; else
\* with a right origin recorded it reports MovementEnded and clears that
\* one; else it reports Nothing.  It never changes the controller state: a
\* controller in Building leaves Building only on a left release, a right
\* release or a notify.
C37_CursorLeftEndsOneDrag ==
    [][/\ event' = Ev("CursorLeft", "none", "none")
          => /\ state' = state
             /\ IF last_left_clicked_position # None
                THEN /\ consequence' = MovementEnded
                     /\ last_left_clicked_position' = None
                     /\ last_right_clicked_position' = last_right_clicked_position
                ELSE IF last_right_clicked_position # None
                THEN /\ consequence' = MovementEnded
                     /\ last_right_clicked_position' = None
                     /\ last_left_clicked_position' = None
                ELSE /\ consequence' = Nothing
                     /\ last_left_clicked_position' = None
                     /\ last_right_clicked_position' = None
       /\ state[1] = "Building" /\ state' # state
          => \/ event' = LeftReleased
             \/ event' = RightReleased
             \/ event'[1] = "notify"]_vars

\* the cursor left the window during a strand building with both buttons
\* held: the left drag has ended, the right origin is still recorded and
\* the controller is still in Building
C37_Witness ==
    /\ event = Ev("CursorLeft", "none", "none")
    /\ consequence = MovementEnded
    /\ state[1] = "Building"
    /\ last_left_clicked_position = None
    /\ last_right_clicked_position # None

\* C38: the placeholder OhNo is never the state the window controller
\* stores between two make_progress calls.  Every make_progress returns and
\* stores the state returned by the make_progress of the state it found (a
\* state built by NormalState, or what the TransitionMessage or YesNo it
\* found returns), so no make_progress runs on OhNo and aborts.
C38_NoPlaceholder ==
    [][/\ window_state' # OhNo
       /\ Handles("Controller::make_progress")
          => /\ consequence' = Unit
             /\ CASE window_state[1] = "NormalState" ->
                        window_state' \in DialogStates \cup {NormalState}
                  [] window_state[1] = "TransitionMessage" ->
                        window_state' = TransitionMessage_make_progress(window_state)
                  [] window_state[1] = "YesNo" ->
                        window_state' = YesNo_make_progress(window_state)
                  [] OTHER -> FALSE]_vars

\* a make_progress that found the state stored by an earlier make_progress
\* (a TransitionMessage built by NormalState) has returned and stored the
\* same TransitionMessage with its dialog open
C38_Witness ==
    /\ Handled("Controller::make_progress")
    /\ consequence = Unit
    /\ window_state[1] = "TransitionMessage"
    /\ window_state[3] = Some(FALSE)

====
